---- MODULE Spec2Model ----
(***************************************************************************)
(* Model of ast2llm-go: the project parser (internal/parser), the          *)
(* dependency graph builder and the composer (internal/composer).          *)
(*                                                                         *)
(* Text is modelled as it is written: a strings.Builder is the sequence of *)
(* the lines written to it (every WriteString of the composer ends a line  *)
(* with "\n", so the builder's content is the lines joined by "\n", each   *)
(* followed by "\n"); the empty string is the empty sequence of lines.     *)
(* A Go error is <<>> (nil) or <<message>>.                                *)
(***************************************************************************)
EXTENDS Integers, Sequences, FiniteSets, TLC

VARIABLES
    session,       \* what the caller did: "idle" | "manual" (built a ProjectInfo itself) |
                   \* "parsed" | "failed" (ParseProject returned an error) | "graph"
    project,       \* the project tree under ProjectPath that was parsed or graphed
    projectInfo,   \* the ProjectInfo held by the ProjectComposer (path -> FileInfo)
    parseErr,      \* error of the last ParseProject
    composed,      \* the last Compose call on projectInfo: <<>> (none yet) or
                   \* <<[filePath, out, err]>>, out being the lines of the text
    graph,         \* result of BuildGraph: [nodes, isNil, err]
    \* cmd/parser-cli: concurrent calls of analyzeProject and their cache
    fileInfoCache,      \* absPath -> the cached result of a pass
    fileInfoCacheLock,  \* the sync.RWMutex: [readers, writer]
    analyze,            \* caller -> [pc, path, hit, fileInfos, out] of its analyzeProject call
    cleanup,            \* caller -> position of the cache cleanup goroutine the call started
    \* internal/mcp: one build_dep_graph request
    handler,       \* the handler: [pc, tree, response, err]
    worker,        \* the goroutine that runs BuildGraph: [pc, graph, graphErr]
    done,          \* is the channel `done` closed
    elapsed        \* whole seconds since the handler began to wait in its select

parserVars == <<session, project, projectInfo, parseErr, composed, graph>>

cacheVars == <<fileInfoCache, fileInfoCacheLock, analyze, cleanup>>

handlerVars == <<handler, worker, done, elapsed>>

vars == <<session, project, projectInfo, parseErr, composed, graph, fileInfoCache,
          fileInfoCacheLock, analyze, cleanup, handler, worker, done, elapsed>>

----------------------------------------------------------------------------
(* Bounds *)

\* total number of entries of the three used-imported lists of a hand-built FileInfo
MaxUsed == 3

\* number of concurrent calls of analyzeProject
MaxCallers == 2

----------------------------------------------------------------------------
(* Generic helpers *)

NilError == <<>>

RECURSIVE Join(_, _)
\* strings.Join(elems, sep)
Join(elems, sep) ==
    IF Len(elems) = 0 THEN ""
    ELSE IF Len(elems) = 1 THEN elems[1]
    ELSE elems[1] \o sep \o Join(Tail(elems), sep)

RECURSIVE FlattenFrom(_, _)
FlattenFrom(ss, i) == IF i > Len(ss) THEN <<>> ELSE ss[i] \o FlattenFrom(ss, i + 1)

\* concatenation of a sequence of sequences
Flatten(ss) == LET elems == <<>> \o ss IN FlattenFrom(elems, 1)

\* the sequences over S of length at most n
SeqsUpTo(S, n) == UNION {[1..k -> S] : k \in 0..n}

\* the orders in which a Go map with key set S can be iterated
Orders(S) == {o \in [1..Cardinality(S) -> S] : \A i, j \in 1..Cardinality(S) : i # j => o[i] # o[j]}

Range(s) == {s[i] : i \in 1..Len(s)}

----------------------------------------------------------------------------
(* internal/types *)

FunctionInfo(name, comment, params, returns) ==
    [Name |-> name, Comment |-> comment, Params |-> params, Returns |-> returns]

StructInfo(name, comment, fields, methods) ==
    [Name |-> name, Comment |-> comment, Fields |-> fields, Methods |-> methods]

InterfaceInfo(name, comment, methods, embeddeds) ==
    [Name |-> name, Comment |-> comment, Methods |-> methods, Embeddeds |-> embeddeds]

GlobalVarInfo(name, comment, type, value, isConst) ==
    [Name |-> name, Comment |-> comment, Type |-> type, Value |-> value, IsConst |-> isConst]

StructField(name, type) == [Name |-> name, Type |-> type]

Method(name, comment, params, returns) ==
    [Name |-> name, Comment |-> comment, Parameters |-> params, ReturnTypes |-> returns]

\* NewFileInfo: every sequence field is an empty slice made by make(..., 0).
\* A slice is the sequence of its elements; NilFields names the sequence fields
\* that hold the nil slice (of length 0 as well) instead of a made one.
NewFileInfo ==
    [PackageName |-> "", Imports |-> <<>>, Functions |-> <<>>, Structs |-> <<>>,
     Interfaces |-> <<>>, GlobalVars |-> <<>>, UsedImportedStructs |-> <<>>,
     UsedImportedFunctions |-> <<>>, UsedImportedGlobalVars |-> <<>>, NilFields |-> {}]

----------------------------------------------------------------------------
(* internal/composer: formatting *)

\* the lines of "- name(params) (returns)" with the optional comment line
FormatMethodLines(m, indent) ==
    <<indent \o "    - " \o m.Name \o "(" \o Join(m.Parameters, ", ") \o ") ("
        \o Join(m.ReturnTypes, ", ") \o ")">>
    \o (IF m.Comment # "" THEN <<indent \o "      Comment: " \o m.Comment>> ELSE <<>>)

FormatStruct(s, indent) ==
    <<indent \o "Struct: " \o s.Name>>
    \o (IF s.Comment # "" THEN <<indent \o "  Comment: " \o s.Comment>> ELSE <<>>)
    \o (IF Len(s.Fields) > 0
        THEN <<indent \o "  Fields:">>
             \o [i \in 1..Len(s.Fields) |->
                   indent \o "    - " \o s.Fields[i].Name \o " " \o s.Fields[i].Type]
        ELSE <<>>)
    \o (IF Len(s.Methods) > 0
        THEN <<indent \o "  Methods:">>
             \o Flatten([i \in 1..Len(s.Methods) |-> FormatMethodLines(s.Methods[i], indent)])
        ELSE <<>>)

FormatInterface(iface, indent) ==
    <<indent \o "Interface: " \o iface.Name>>
    \o (IF iface.Comment # "" THEN <<indent \o "  Comment: " \o iface.Comment>> ELSE <<>>)
    \o (IF Len(iface.Embeddeds) > 0
        THEN <<indent \o "  Embeds:">>
             \o [i \in 1..Len(iface.Embeddeds) |-> indent \o "    - " \o iface.Embeddeds[i]]
        ELSE <<>>)
    \o (IF Len(iface.Methods) > 0
        THEN <<indent \o "  Methods:">>
             \o Flatten([i \in 1..Len(iface.Methods) |-> FormatMethodLines(iface.Methods[i], indent)])
        ELSE <<>>)

FormatFunction(fn, indent) ==
    <<indent \o "Function: " \o fn.Name>>
    \o (IF fn.Comment # "" THEN <<indent \o "  Comment: " \o fn.Comment>> ELSE <<>>)
    \o <<indent \o "  Signature: (" \o Join(fn.Params, ", ") \o ")"
         \o (IF Len(fn.Returns) > 0 THEN " -> (" \o Join(fn.Returns, ", ") \o ")" ELSE "")>>

FormatGlobalVar(gv, indent) ==
    <<indent \o (IF gv.IsConst THEN "Const" ELSE "Var") \o ": " \o gv.Name \o " " \o gv.Type
        \o (IF gv.Value # "" THEN " = " \o gv.Value ELSE "")>>
    \o (IF gv.Comment # "" THEN <<indent \o "  Comment: " \o gv.Comment>> ELSE <<>>)

----------------------------------------------------------------------------
(* internal/composer: Compose *)

\* every entry of one local-declaration list of every file, in the order the
\* loop "for _, info := range p.projectInfo" (files in the map order `order`)
\* meets them
IndexEntries(pi, order, list) == Flatten([i \in 1..Len(order) |-> pi[order[i]][list]])

\* the lookup map name -> definition built by m[x.Name] = x over `entries`:
\* a later entry of the same name overwrites an earlier one
IndexMap(entries) ==
    [n \in {entries[i].Name : i \in 1..Len(entries)} |->
        entries[CHOOSE i \in 1..Len(entries) :
                    /\ entries[i].Name = n
                    /\ \A j \in (i+1)..Len(entries) : entries[j].Name # n]]

\* an iteration that never looks the name up
UsedStructLinesWithoutLookup(s, structsMap, interfacesMap, functionsMap) == <<"- " \o s.Name>>

\* one iteration of the loop over fileInfo.UsedImportedStructs
UsedStructLines(s, structsMap, interfacesMap, functionsMap) ==
    IF s.Name \in DOMAIN structsMap THEN FormatStruct(structsMap[s.Name], "  ")
    ELSE IF s.Name \in DOMAIN interfacesMap THEN FormatInterface(interfacesMap[s.Name], "  ")
    ELSE IF s.Name \in DOMAIN functionsMap THEN FormatFunction(functionsMap[s.Name], "  ")
    ELSE <<"- " \o s.Name>>

UsedItemsHeader == "Used Imported Structs (from this project, if available):"

\* the "used" section of Compose
UsedSection(pi, fileInfo, order) ==
    IF Len(fileInfo.UsedImportedStructs) > 0 \/ Len(fileInfo.UsedImportedFunctions) > 0
    THEN LET projectStructsMap == IndexMap(IndexEntries(pi, order, "Structs"))
             projectInterfacesMap == IndexMap(IndexEntries(pi, order, "Interfaces"))
             projectFunctionsMap == IndexMap(IndexEntries(pi, order, "Functions"))
         IN <<UsedItemsHeader>>
            \o Flatten([i \in 1..Len(fileInfo.UsedImportedStructs) |->
                 UsedStructLines(fileInfo.UsedImportedStructs[i], projectStructsMap,
                                 projectInterfacesMap, projectFunctionsMap)])
            \o Flatten([i \in 1..Len(fileInfo.UsedImportedFunctions) |->
                 FormatFunction(fileInfo.UsedImportedFunctions[i], "  ")])
    ELSE <<>>

\* a header without the blank line that ends it
HeaderLinesWithoutBlank(filePath, fileInfo) ==
    <<"--- File: " \o filePath \o " ---", "Package: " \o fileInfo.PackageName>>

HeaderLines(filePath, fileInfo) ==
    <<"--- File: " \o filePath \o " ---", "Package: " \o fileInfo.PackageName, "">>

ImportsSection(fileInfo) ==
    IF Len(fileInfo.Imports) > 0
    THEN <<"Imports:">> \o [i \in 1..Len(fileInfo.Imports) |-> "- " \o fileInfo.Imports[i]] \o <<"">>
    ELSE <<>>

FunctionsSection(fileInfo) ==
    IF Len(fileInfo.Functions) > 0
    THEN <<"Functions:">>
         \o Flatten([i \in 1..Len(fileInfo.Functions) |-> FormatFunction(fileInfo.Functions[i], "  ")])
         \o <<"">>
    ELSE <<>>

StructsSection(fileInfo) ==
    IF Len(fileInfo.Structs) > 0
    THEN <<"Local Structs:">>
         \o Flatten([i \in 1..Len(fileInfo.Structs) |-> FormatStruct(fileInfo.Structs[i], "  ")])
    ELSE <<>>

InterfacesSection(fileInfo) ==
    IF Len(fileInfo.Interfaces) > 0
    THEN <<"Local Interfaces:">>
         \o Flatten([i \in 1..Len(fileInfo.Interfaces) |-> FormatInterface(fileInfo.Interfaces[i], "  ")])
    ELSE <<>>

\* a not-found error that does not name the path
NotFoundErrorWithoutPath(filePath) == <<"file info not found">>

NotFoundError(filePath) == <<"file info not found for path: " \o filePath>>

\* a Compose that takes a FileInfo without functions for a missing one
ComposeMissingWithoutFunctions(pi, filePath, order) ==
    IF filePath \notin DOMAIN pi \/ Len(pi[filePath].Functions) = 0
    THEN [out |-> <<>>, err |-> NotFoundError(filePath)]
    ELSE [out |-> HeaderLines(filePath, pi[filePath]), err |-> NilError]

\* ProjectComposer.Compose(filePath) on the ProjectInfo pi; `order` is the order
\* in which this call's range over the map pi yields the files
Compose(pi, filePath, order) ==
    IF filePath \notin DOMAIN pi
    THEN [out |-> <<>>, err |-> NotFoundError(filePath)]
    ELSE LET fileInfo == pi[filePath]
         IN [out |-> HeaderLines(filePath, fileInfo)
                     \o ImportsSection(fileInfo)
                     \o FunctionsSection(fileInfo)
                     \o StructsSection(fileInfo)
                     \o InterfacesSection(fileInfo)
                     \o UsedSection(pi, fileInfo, order),
             err |-> NilError]

----------------------------------------------------------------------------
(* ProjectInfos built by the caller (as the composer tests build them) *)

NameA == "testme/dto.A"
NameB == "testme/dto.B"

TargetPath == "/project/file.go"
OtherPath == "/project/other.go"
NonexistentPath == "/path/to/nonexistent.go"

DetailedStruct(n) ==
    StructInfo(n, "A test struct.",
               <<StructField("FieldA", "string"), StructField("FieldB", "int")>>,
               <<Method("GetA", "Returns A.", <<>>, <<"string">>)>>)

DetailedInterface(n) ==
    InterfaceInfo(n, "A test interface.",
                  <<Method("DoSomething", "Performs an action.", <<"ctx context.Context">>, <<"error">>)>>,
                  <<"io.Writer">>)

DetailedFunction(n) ==
    FunctionInfo(n, "Help to calculate", <<"a int", "b string">>, <<"int", "error">>)

\* the entries a caller puts in the used-imported lists
StructStub(n) == StructInfo(n, "", <<>>, <<>>)
FunctionRef(n) == FunctionInfo(n, "", <<"i int">>, <<>>)
GlobalVarRef(n) == GlobalVarInfo(n, "", "time.Duration", "5 * time.Second", FALSE)

\* which kinds of local definition /project/other.go holds for each name
ManualDefs == [A : SUBSET {"S", "I", "F"}, B : {{}, {"S"}}]

\* the three used-imported lists of /project/file.go
ManualUsed ==
    {u \in [S : SeqsUpTo({NameA, NameB}, MaxUsed), F : SeqsUpTo({NameA, NameB}, MaxUsed),
            G : SeqsUpTo({NameA, NameB}, MaxUsed)] :
        Len(u.S) + Len(u.F) + Len(u.G) <= MaxUsed}

ManualOther(d) ==
    [NewFileInfo EXCEPT
        !.PackageName = "other",
        !.Structs = (IF "S" \in d.A THEN <<DetailedStruct(NameA)>> ELSE <<>>)
                    \o (IF "S" \in d.B THEN <<DetailedStruct(NameB)>> ELSE <<>>),
        !.Interfaces = IF "I" \in d.A THEN <<DetailedInterface(NameA)>> ELSE <<>>,
        !.Functions = IF "F" \in d.A THEN <<DetailedFunction(NameA)>> ELSE <<>>]

ManualTarget(u) ==
    [NewFileInfo EXCEPT
        !.PackageName = "main",
        !.UsedImportedStructs = [i \in 1..Len(u.S) |-> StructStub(u.S[i])],
        !.UsedImportedFunctions = [i \in 1..Len(u.F) |-> FunctionRef(u.F[i])],
        !.UsedImportedGlobalVars = [i \in 1..Len(u.G) |-> GlobalVarRef(u.G[i])]]

ManualProjectInfo(d, u) ==
    [p \in {TargetPath, OtherPath} |-> IF p = TargetPath THEN ManualTarget(u) ELSE ManualOther(d)]

EmptyProjectInfo == [p \in {} |-> NewFileInfo]


----------------------------------------------------------------------------
(* The language frontend (go/ast, go/types, go/packages) as the parser sees it. *)
(* A syntax node is a record with its kind k, the attributes the parser reads   *)
(* and kids, its children in the order ast.Inspect visits them.  Identifiers    *)
(* that only define a name (they are in TypesInfo.Defs, never in Uses) are not  *)
(* nodes of their own: the parser reaches them through their declaration.       *)

\* go/types: a type, by what the parser asks of it (is it *types.Named, its
\* String(), the package of its Obj(), "" for the universe)
BasicType(str) == [Named |-> FALSE, Str |-> str, Pkg |-> ""]
NamedType(pkgPath, name) == [Named |-> TRUE, Str |-> pkgPath \o "." \o name, Pkg |-> pkgPath]

\* go/types: an object; Pkg = "" is a nil Pkg(), Kind = "nil" a nil object
Object(kind, pkgPath, name, type, val, sig) ==
    [Kind |-> kind, Pkg |-> pkgPath, Name |-> name, Type |-> type, Val |-> val, Sig |-> sig]
TypeNameObj(pkgPath, name) == Object("TypeName", pkgPath, name, NamedType(pkgPath, name), "", "")
BuiltinTypeObj(name) == Object("TypeName", "", name, BasicType(name), "", "")
PkgNameObj(name) == Object("PkgName", "", name, BasicType("invalid type"), "", "")
VarObj(pkgPath, name, type) == Object("Var", pkgPath, name, type, "", "")
ConstObj(pkgPath, name, type, val) == Object("Const", pkgPath, name, type, val, "")
FuncObj(pkgPath, name, sig) == Object("Func", pkgPath, name, BasicType("func" \o sig), "", sig)

\* (*types.Func).String()
FuncString(obj) == "func " \o obj.Pkg \o "." \o obj.Name \o obj.Sig

\* go/ast nodes
Ident(name, obj) == [k |-> "Ident", Name |-> name, Obj |-> obj, kids |-> <<>>]
BasicLit(value) == [k |-> "BasicLit", Value |-> value, kids |-> <<>>]
SelectorExpr(x, sel) == [k |-> "SelectorExpr", X |-> x, Sel |-> sel, kids |-> <<x, sel>>]
StarExpr(x) == [k |-> "StarExpr", X |-> x, kids |-> <<x>>]
ArrayType(elt) == [k |-> "ArrayType", Elt |-> elt, kids |-> <<elt>>]
MapType(key, value) == [k |-> "MapType", Key |-> key, Value |-> value, kids |-> <<key, value>>]
CompositeLit(type) == [k |-> "CompositeLit", Type |-> type, kids |-> <<type>>]
CallExpr(fun, args) == [k |-> "CallExpr", Fun |-> fun, Args |-> args, kids |-> <<fun>> \o args]
\* a field, parameter or result: the names it declares and its type
Field(names, type) == [k |-> "Field", Names |-> names, Type |-> type, kids |-> <<type>>]
FuncType(params, results) ==
    [k |-> "FuncType", Params |-> params, Results |-> results, kids |-> params \o results]
StructType(fields) == [k |-> "StructType", Fields |-> fields, kids |-> fields]
InterfaceType(methods) == [k |-> "InterfaceType", Methods |-> methods, kids |-> methods]
TypeSpec(name, doc, type) ==
    [k |-> "TypeSpec", Name |-> name, Doc |-> doc, Type |-> type, kids |-> <<type>>]
\* names, doc, declared type (<<>> when absent, else <<type>>), initializers and
\* the objects TypesInfo.Defs gives for the names
ValueSpec(names, doc, type, values, defs) ==
    [k |-> "ValueSpec", Names |-> names, Doc |-> doc, Type |-> type, Values |-> values,
     Defs |-> defs, kids |-> type \o values]
GenDecl(tok, doc, specs) == [k |-> "GenDecl", Tok |-> tok, Doc |-> doc, Specs |-> specs, kids |-> specs]
\* recv is <<>> (no receiver) or <<field>>
FuncDecl(name, doc, recv, type, body) ==
    [k |-> "FuncDecl", Name |-> name, Doc |-> doc, Recv |-> recv, Type |-> type, Body |-> body,
     kids |-> recv \o <<type>> \o body]
DeclStmt(decl) == [k |-> "DeclStmt", Decl |-> decl, kids |-> <<decl>>]
ExprStmt(x) == [k |-> "ExprStmt", X |-> x, kids |-> <<x>>]
AssignStmt(lhs, rhs) == [k |-> "AssignStmt", Lhs |-> lhs, Rhs |-> rhs, kids |-> lhs \o rhs]
\* an import spec: the path literal with its quotes
ImportSpec(path) == [k |-> "ImportSpec", PathValue |-> "\"" \o path \o "\""]
File(path, name, imports, decls) ==
    [k |-> "File", Path |-> path, Name |-> name, Imports |-> imports, Decls |-> decls, kids |-> decls]

\* go/packages: a loaded package; Imports is the key set of pkg.Imports
Package(pkgPath, errors, syntax, imports) ==
    [PkgPath |-> pkgPath, Errors |-> errors, Syntax |-> syntax, Imports |-> imports,
     GoFiles |-> [i \in 1..Len(syntax) |-> syntax[i].Path]]

RECURSIVE Walk(_)
\* the nodes ast.Inspect(n, f) passes to f when f always returns true
Walk(n) == <<n>> \o Flatten([i \in 1..Len(n.kids) |-> Walk(n.kids[i])])

\* (*CommentGroup).Text() of a doc comment whose lines are doc: the text and a newline
DocText(doc) == doc \o "\n"

WhiteSpace == {" ", "\n", "\t", "\r"}

RECURSIVE TrimLeft(_)
TrimLeft(str) ==
    IF Len(str) > 0 /\ SubSeq(str, 1, 1) \in WhiteSpace THEN TrimLeft(SubSeq(str, 2, Len(str))) ELSE str

RECURSIVE TrimRight(_)
TrimRight(str) ==
    IF Len(str) > 0 /\ SubSeq(str, Len(str), Len(str)) \in WhiteSpace
    THEN TrimRight(SubSeq(str, 1, Len(str) - 1)) ELSE str

\* strings.TrimSpace
TrimSpace(str) == TrimLeft(TrimRight(str))

RECURSIVE TrimCutset(_, _)
\* strings.Trim(str, cutset) for a cutset of one character
TrimCutset(str, c) ==
    IF Len(str) > 0 /\ SubSeq(str, 1, 1) = c THEN TrimCutset(SubSeq(str, 2, Len(str)), c)
    ELSE IF Len(str) > 0 /\ SubSeq(str, Len(str), Len(str)) = c
         THEN TrimCutset(SubSeq(str, 1, Len(str) - 1), c)
    ELSE str

UpperCase == {"A", "B", "C", "D", "E", "F", "G", "H", "I", "J", "K", "L", "M",
              "N", "O", "P", "Q", "R", "S", "T", "U", "V", "W", "X", "Y", "Z"}

\* (*ast.Ident).IsExported / token.IsExported
IsExported(name) == Len(name) > 0 /\ SubSeq(name, 1, 1) \in UpperCase

RECURSIVE TypeString(_)
\* TypesInfo.TypeOf(expr).String() of a type expression
TypeString(expr) ==
    CASE expr.k = "Ident" -> expr.Obj.Type.Str
      [] expr.k = "SelectorExpr" -> expr.Sel.Obj.Type.Str
      [] expr.k = "StarExpr" -> "*" \o TypeString(expr.X)
      [] expr.k = "ArrayType" -> "[]" \o TypeString(expr.Elt)
      [] expr.k = "MapType" -> "map[" \o TypeString(expr.Key) \o "]" \o TypeString(expr.Value)
      [] OTHER -> "invalid type"

RECURSIVE PrintExpr(_)
\* printer.Fprint of an expression
PrintExpr(expr) ==
    CASE expr.k = "Ident" -> expr.Name
      [] expr.k = "BasicLit" -> expr.Value
      [] expr.k = "SelectorExpr" -> PrintExpr(expr.X) \o "." \o PrintExpr(expr.Sel)
      [] expr.k = "CallExpr" ->
            PrintExpr(expr.Fun) \o "(" \o Join([i \in 1..Len(expr.Args) |-> PrintExpr(expr.Args[i])], ", ") \o ")"
      [] expr.k = "CompositeLit" -> PrintExpr(expr.Type) \o "{}"
      [] OTHER -> TypeString(expr)

----------------------------------------------------------------------------
(* The project trees the parser is run on: module example.com/testproject with *)
(* a package pkg1 of declarations and a package pkg2 that uses them (the shape  *)
(* of the fixtures of the parser and composer tests).                           *)

\* number of the uses of UsePool that one consumer.go holds
MaxUses == 2

ProjectPath == "/testproject"
Pkg1Path == "example.com/testproject/pkg1"
Pkg2Path == "example.com/testproject/pkg2"
TypesGo == "/testproject/pkg1/types.go"
ConsumerGo == "/testproject/pkg2/consumer.go"

IntType == Ident("int", BuiltinTypeObj("int"))
StringType == Ident("string", BuiltinTypeObj("string"))
ErrorType == Ident("error", Object("TypeName", "", "error", [Named |-> TRUE, Str |-> "error", Pkg |-> ""], "", ""))
Blank == Ident("_", Object("nil", "", "", BasicType("invalid type"), "", ""))


\* pkg1/types.go
TypesGoFile ==
    File(TypesGo, "pkg1", <<>>,
      << GenDecl("type", "Data struct",
            <<TypeSpec("Data", "", StructType(<<Field(<<"Value">>, StringType)>>))>>),
         FuncDecl("Get", "Get returns the value.",
            <<Field(<<"d">>, StarExpr(Ident("Data", TypeNameObj(Pkg1Path, "Data"))))>>,
            FuncType(<<>>, <<Field(<<>>, StringType)>>), <<>>),
         GenDecl("type", "",
            <<TypeSpec("K", "", StructType(<<Field(<<"ID">>, IntType)>>))>>),
         FuncDecl("Key", "", <<Field(<<"k">>, Ident("K", TypeNameObj(Pkg1Path, "K")))>>,
            FuncType(<<>>, <<Field(<<>>, IntType)>>), <<>>),
         GenDecl("type", "Reader is a test interface.",
            <<TypeSpec("Reader", "", InterfaceType(
                <<Field(<<"Read">>, FuncType(<<Field(<<"p">>, ArrayType(Ident("byte", BuiltinTypeObj("byte"))))>>,
                                              <<Field(<<"n">>, IntType), Field(<<"err">>, ErrorType)>>))>>))>>),
         GenDecl("type", "ReadCloser embeds another interface.",
            <<TypeSpec("ReadCloser", "", InterfaceType(
                <<Field(<<>>, Ident("Reader", TypeNameObj(Pkg1Path, "Reader"))),
                  Field(<<"Close">>, FuncType(<<>>, <<Field(<<>>, ErrorType)>>))>>))>>),
         GenDecl("const", "X is an awesome constant.",
            <<ValueSpec(<<"X">>, "", <<>>, <<BasicLit("42")>>,
                        <<ConstObj(Pkg1Path, "X", BasicType("untyped int"), "42")>>)>>),
         GenDecl("var", "V is an awesome variable.",
            <<ValueSpec(<<"V">>, "", <<>>, <<BasicLit("\"foo\"")>>,
                        <<VarObj(Pkg1Path, "V", BasicType("string"))>>)>>),
         GenDecl("const", "Limits of the package.",
            <<ValueSpec(<<"Max">>, "Max is the maximum.", <<>>, <<BasicLit("10")>>,
                        <<ConstObj(Pkg1Path, "Max", BasicType("untyped int"), "10")>>)>>),
         FuncDecl("Foo", "Foo adds.", <<>>,
            FuncType(<<Field(<<"a", "b">>, IntType)>>, <<Field(<<>>, IntType), Field(<<>>, ErrorType)>>),
            <<>>),
         FuncDecl("helper", "", <<>>, FuncType(<<>>, <<>>),
            <<DeclStmt(GenDecl("var", "",
                 <<ValueSpec(<<"tmp">>, "", <<>>, <<BasicLit("1")>>,
                             <<VarObj(Pkg1Path, "tmp", BasicType("int"))>>)>>)),
              AssignStmt(<<Blank>>, <<Ident("tmp", VarObj(Pkg1Path, "tmp", BasicType("int")))>>)>>)
      >>)

\* references of pkg2 to other packages, as the type checker resolves them
Pkg1Name == Ident("pkg1", PkgNameObj("pkg1"))
DataRef == SelectorExpr(Pkg1Name, Ident("Data", TypeNameObj(Pkg1Path, "Data")))
KRef == SelectorExpr(Pkg1Name, Ident("K", TypeNameObj(Pkg1Path, "K")))
ReadCloserRef == SelectorExpr(Pkg1Name, Ident("ReadCloser", TypeNameObj(Pkg1Path, "ReadCloser")))
FooRef == SelectorExpr(Pkg1Name, Ident("Foo", FuncObj(Pkg1Path, "Foo", "(a int, b int) (int, error)")))
XRef == SelectorExpr(Pkg1Name, Ident("X", ConstObj(Pkg1Path, "X", BasicType("untyped int"), "42")))
VRef == SelectorExpr(Pkg1Name, Ident("V", VarObj(Pkg1Path, "V", BasicType("string"))))
PrintlnRef == SelectorExpr(Ident("fmt", PkgNameObj("fmt")), Ident("Println", FuncObj("fmt", "Println", "(a ...any) (n int, err error)")))
MaxInt8Ref ==
    SelectorExpr(Ident("math", PkgNameObj("math")),
                 Ident("MaxInt8", ConstObj("math", "MaxInt8", BasicType("untyped int"), "127")))

\* var _ <type> = <value> (type and value are <<>> or <<expr>>)
BlankVar(type, value, typeStr) ==
    GenDecl("var", "", <<ValueSpec(<<"_">>, "", type, value, <<VarObj(Pkg2Path, "_", BasicType(typeStr))>>)>>)

\* the uses a consumer.go is put together from: the top-level declarations and the
\* statements of func Run() each one adds, and the packages it needs imported
UsePool ==
    [ ProcessData |->   \* func ProcessData(d pkg1.Data) { fmt.Println(d.Value) }
        [top |-> <<FuncDecl("ProcessData", "ProcessData processes data.", <<>>,
                      FuncType(<<Field(<<"d">>, DataRef)>>, <<>>),
                      <<ExprStmt(CallExpr(PrintlnRef,
                          <<SelectorExpr(Ident("d", VarObj(Pkg2Path, "d", NamedType(Pkg1Path, "Data"))),
                                         Ident("Value", VarObj(Pkg1Path, "Value", BasicType("string"))))>>))>>)>>,
         body |-> <<>>, imports |-> {"fmt", Pkg1Path}],
      Literal |->       \* _ = pkg1.Data{}
        [top |-> <<>>, body |-> <<AssignStmt(<<Blank>>, <<CompositeLit(DataRef)>>)>>, imports |-> {Pkg1Path}],
      CallFoo |->       \* pkg1.Foo(4, 8)
        [top |-> <<>>, body |-> <<ExprStmt(CallExpr(FooRef, <<BasicLit("4"), BasicLit("8")>>))>>,
         imports |-> {Pkg1Path}],
      CallFooAgain |->  \* pkg1.Foo(5, 9)
        [top |-> <<>>, body |-> <<ExprStmt(CallExpr(FooRef, <<BasicLit("5"), BasicLit("9")>>))>>,
         imports |-> {Pkg1Path}],
      RefConst |->      \* var _ = pkg1.X
        [top |-> <<BlankVar(<<>>, <<XRef>>, "int")>>, body |-> <<>>, imports |-> {Pkg1Path}],
      RefVar |->        \* var _ = pkg1.V
        [top |-> <<BlankVar(<<>>, <<VRef>>, "string")>>, body |-> <<>>, imports |-> {Pkg1Path}],
      Println |->       \* fmt.Println("x")
        [top |-> <<>>, body |-> <<ExprStmt(CallExpr(PrintlnRef, <<BasicLit("\"x\"")>>))>>, imports |-> {"fmt"}],
      MapKey |->        \* var _ map[pkg1.K]int
        [top |-> <<>>,
         body |-> <<DeclStmt(BlankVar(<<MapType(KRef, IntType)>>, <<>>, "map[" \o Pkg1Path \o ".K]int"))>>,
         imports |-> {Pkg1Path}],
      MapValue |->      \* var _ map[string]pkg1.K
        [top |-> <<>>,
         body |-> <<DeclStmt(BlankVar(<<MapType(StringType, KRef)>>, <<>>, "map[string]" \o Pkg1Path \o ".K"))>>,
         imports |-> {Pkg1Path}],
      IfaceVar |->      \* var _ pkg1.ReadCloser
        [top |-> <<>>,
         body |-> <<DeclStmt(BlankVar(<<ReadCloserRef>>, <<>>, Pkg1Path \o ".ReadCloser"))>>,
         imports |-> {Pkg1Path}],
      StdConst |->      \* var _ = math.MaxInt8
        [top |-> <<BlankVar(<<>>, <<MaxInt8Ref>>, "int")>>, body |-> <<>>, imports |-> {"math"}],
      Unexported |->    \* func process() {}
        [top |-> <<FuncDecl("process", "", <<>>, FuncType(<<>>, <<>>), <<>>)>>, body |-> <<>>, imports |-> {}] ]

\* the order in which consumer.go holds the uses it has
UseOrder == <<"ProcessData", "RefConst", "RefVar", "StdConst", "Unexported",
              "Literal", "CallFoo", "CallFooAgain", "Println", "MapKey", "MapValue", "IfaceVar">>

\* the import paths in the order the import declaration lists them
ImportOrder == <<"fmt", "math", Pkg1Path>>

UsesInOrder(uses) == SelectSeq(UseOrder, LAMBDA u : u \in uses)

\* pkg2/consumer.go with the given uses
ConsumerGoFile(uses) ==
    LET us == UsesInOrder(uses)
        needed == UNION {UsePool[u].imports : u \in uses}
        body == Flatten([i \in 1..Len(us) |-> UsePool[us[i]].body])
    IN File(ConsumerGo, "pkg2",
            [i \in 1..Len(SelectSeq(ImportOrder, LAMBDA ip : ip \in needed)) |->
                ImportSpec(SelectSeq(ImportOrder, LAMBDA ip : ip \in needed)[i])],
            Flatten([i \in 1..Len(us) |-> UsePool[us[i]].top])
            \o (IF Len(body) > 0
                THEN <<FuncDecl("Run", "", <<>>, FuncType(<<>>, <<>>), body)>>
                ELSE <<>>))

\* the project trees: the uses of consumer.go, the packages the frontend reports
\* errors for, and what packages.Load does ("ok", "none": no package matches,
\* "error": Load itself fails)
Projects ==
    {t \in [uses : SUBSET (DOMAIN UsePool), errs : SUBSET {Pkg1Path, Pkg2Path},
            load : {"ok", "none", "error"}] :
        /\ Cardinality(t.uses) + Cardinality(t.errs) <= MaxUses
        /\ t.load # "ok" => (t.uses = {} /\ t.errs = {})}

\* packages.Load(cfg, "./...") on the tree t: <<error>> or the packages
LoadPackages(t) ==
    IF t.load # "ok" THEN <<>>
    ELSE << Package(Pkg1Path, Pkg1Path \in t.errs, <<TypesGoFile>>, {}),
            Package(Pkg2Path, Pkg2Path \in t.errs, <<ConsumerGoFile(t.uses)>>,
                    UNION {UsePool[u].imports : u \in t.uses}) >>

LoadError(t) == IF t.load = "error" THEN <<"go list failed">> ELSE NilError

\* the paths Compose is asked for
RequestPaths == {TargetPath, OtherPath, TypesGo, ConsumerGo, NonexistentPath}

----------------------------------------------------------------------------
(* internal/parser: ProjectParser *)

\* "name type" for every name of every field, the bare type for an unnamed field
NamedTypeStrings(fields) ==
    Flatten([i \in 1..Len(fields) |->
        IF Len(fields[i].Names) = 0 THEN <<TypeString(fields[i].Type)>>
        ELSE [j \in 1..Len(fields[i].Names) |-> fields[i].Names[j] \o " " \o TypeString(fields[i].Type)]])

\* the type of every name of every field, once for an unnamed field
TypeStrings(fields) ==
    Flatten([i \in 1..Len(fields) |->
        IF Len(fields[i].Names) = 0 THEN <<TypeString(fields[i].Type)>>
        ELSE [j \in 1..Len(fields[i].Names) |-> TypeString(fields[i].Type)]])

\* the String() of the signature go/types gives a function declaration
SignatureString(funcType) ==
    "(" \o Join(NamedTypeStrings(funcType.Params), ", ") \o ")"
    \o (IF Len(funcType.Results) = 0 THEN ""
        ELSE IF Len(funcType.Results) = 1 /\ Len(funcType.Results[1].Names) = 0
             THEN " " \o TypeString(funcType.Results[1].Type)
        ELSE " (" \o Join(NamedTypeStrings(funcType.Results), ", ") \o ")")

DocComment(doc) == IF doc # "" THEN TrimSpace(DocText(doc)) ELSE ""

extractFunctionInfo(funcDecl) ==
    FunctionInfo(funcDecl.Name, DocComment(funcDecl.Doc),
                 NamedTypeStrings(funcDecl.Type.Params), TypeStrings(funcDecl.Type.Results))

extractGlobalVarInfo(obj, genDecl, valSpec, specIndex) ==
    LET comment == IF valSpec.Doc # "" THEN DocText(valSpec.Doc)
                   ELSE IF genDecl.Doc # "" THEN DocText(genDecl.Doc)
                   ELSE ""
        value == IF obj.Kind = "Const" THEN obj.Val
                 ELSE IF obj.Kind = "Var" /\ specIndex <= Len(valSpec.Values)
                      THEN PrintExpr(valSpec.Values[specIndex])
                 ELSE ""
    IN GlobalVarInfo(obj.Name, TrimSpace(comment), obj.Type.Str, value, obj.Kind = "Const")

\* the name of the type a receiver names: T of (x T) and of (x *T)
ReceiverTypeName(recv) ==
    IF recv[1].Type.k = "StarExpr" THEN recv[1].Type.X.Name ELSE recv[1].Type.Name

\* namedType.Method(0..NumMethods()-1): the methods declared on the type in
\* the package, as <<file path, declaration>>
MethodsOfType(typeName, pkg) ==
    Flatten([i \in 1..Len(pkg.Syntax) |->
        LET decls == SelectSeq(pkg.Syntax[i].Decls,
                        LAMBDA d : d.k = "FuncDecl" /\ Len(d.Recv) > 0 /\ ReceiverTypeName(d.Recv) = typeName)
        IN [j \in 1..Len(decls) |-> <<pkg.Syntax[i].Path, decls[j]>>]])

\* the doc comment of a type declaration: the declaration's, else the spec's
TypeDocComment(genDecl, typeSpec) ==
    IF genDecl.Doc # "" THEN TrimSpace(DocText(genDecl.Doc))
    ELSE IF typeSpec.Doc # "" THEN TrimSpace(DocText(typeSpec.Doc))
    ELSE ""

extractDetailedStructInfo(genDecl, typeSpec, pkg, targetFile) ==
    LET fields == typeSpec.Type.Fields
        methods == MethodsOfType(typeSpec.Name, pkg)
    IN StructInfo(
         NamedType(pkg.PkgPath, typeSpec.Name).Str,
         TypeDocComment(genDecl, typeSpec),
         Flatten([i \in 1..Len(fields) |->
            IF Len(fields[i].Names) = 0
            THEN <<StructField(IF fields[i].Type.k = "SelectorExpr" THEN fields[i].Type.Sel.Name
                               ELSE IF fields[i].Type.k = "StarExpr" THEN fields[i].Type.X.Name
                               ELSE fields[i].Type.Name,
                               TypeString(fields[i].Type))>>
            ELSE [j \in 1..Len(fields[i].Names) |->
                    StructField(fields[i].Names[j], TypeString(fields[i].Type))]]),
         [i \in 1..Len(methods) |->
            Method(methods[i][2].Name,
                   \* the comment is looked up among the FuncDecls of targetFile only
                   IF methods[i][1] = targetFile.Path THEN DocComment(methods[i][2].Doc) ELSE "",
                   TypeStrings(methods[i][2].Type.Params),
                   TypeStrings(methods[i][2].Type.Results))])

extractDetailedInterfaceInfo(genDecl, typeSpec, pkg, targetFile) ==
    LET explicit == SelectSeq(typeSpec.Type.Methods, LAMBDA f : Len(f.Names) > 0)
        embedded == SelectSeq(typeSpec.Type.Methods, LAMBDA f : Len(f.Names) = 0)
    IN InterfaceInfo(
         NamedType(pkg.PkgPath, typeSpec.Name).Str,
         TypeDocComment(genDecl, typeSpec),
         \* no FuncDecl declares an interface method: its comment stays empty
         [i \in 1..Len(explicit) |->
            Method(explicit[i].Names[1], "", TypeStrings(explicit[i].Type.Params),
                   TypeStrings(explicit[i].Type.Results))],
         [i \in 1..Len(embedded) |-> TypeString(embedded[i].Type)])

\* the <<genDecl, spec>> pairs among the nodes of an inspection, in its order
SpecsOf(nodes) ==
    LET genDecls == SelectSeq(nodes, LAMBDA n : n.k = "GenDecl")
    IN Flatten([i \in 1..Len(genDecls) |->
          [j \in 1..Len(genDecls[i].Specs) |-> <<genDecls[i], genDecls[i].Specs[j]>>]])

\* the entries appended to fileInfo.GlobalVars
LocalGlobalVars(nodes) ==
    LET specs == SelectSeq(SpecsOf(nodes), LAMBDA gs : gs[2].k = "ValueSpec")
    IN Flatten([i \in 1..Len(specs) |->
          LET named == SelectSeq([j \in 1..Len(specs[i][2].Names) |-> j],
                                 LAMBDA j : specs[i][2].Defs[j].Kind # "nil")
          IN [j \in 1..Len(named) |->
                extractGlobalVarInfo(specs[i][2].Defs[named[j]], specs[i][1], specs[i][2], named[j])]])

\* an inspection that appends the methods to fileInfo.Functions as well
LocalFunctionsAndMethods(nodes) ==
    LET decls == SelectSeq(nodes, LAMBDA n : n.k = "FuncDecl")
    IN [i \in 1..Len(decls) |-> extractFunctionInfo(decls[i])]

\* the entries appended to fileInfo.Functions: the declarations without receiver
LocalFunctions(nodes) ==
    LET decls == SelectSeq(nodes, LAMBDA n : n.k = "FuncDecl" /\ Len(n.Recv) = 0)
    IN [i \in 1..Len(decls) |-> extractFunctionInfo(decls[i])]

\* localStructsMap after the inspection of the file
LocalStructsMap(nodes, file, pkg) ==
    LET specs == SelectSeq(SpecsOf(nodes), LAMBDA gs : gs[2].k = "TypeSpec" /\ gs[2].Type.k = "StructType")
    IN IndexMap([i \in 1..Len(specs) |-> extractDetailedStructInfo(specs[i][1], specs[i][2], pkg, file)])

\* localInterfacesMap after the inspection of the file
LocalInterfacesMap(nodes, file, pkg) ==
    LET specs == SelectSeq(SpecsOf(nodes), LAMBDA gs : gs[2].k = "TypeSpec" /\ gs[2].Type.k = "InterfaceType")
    IN IndexMap([i \in 1..Len(specs) |-> extractDetailedInterfaceInfo(specs[i][1], specs[i][2], pkg, file)])

\* the slices a loop "for _, v := range m { s = append(s, v) }" can build from map m
MapValuesInAnyOrder(m) == {[i \in 1..Len(o) |-> m[o[i]]] : o \in Orders(DOMAIN m)}

\* typeExpr with a slice/array or map type replaced by its element / value type
ElementType(type) ==
    IF Len(type) = 0 THEN <<>>
    ELSE IF type[1].k = "ArrayType" THEN <<type[1].Elt>>
    ELSE IF type[1].k = "MapType" THEN <<type[1].Value>>
    ELSE type

\* is obj's type a named type declared in a package other than pkgPath
NamedElsewhere(obj, pkgPath) ==
    obj.Kind # "nil" /\ obj.Type.Named /\ obj.Type.Pkg # "" /\ obj.Type.Pkg # pkgPath

\* the names one node of the inspection adds to usedImportedStructs
UsedStructNamesOfNode(node, pkgPath) ==
    IF node.k = "Ident"
    THEN IF NamedElsewhere(node.Obj, pkgPath) THEN {node.Obj.Type.Str} ELSE {}
    ELSE LET typeExpr ==
                CASE node.k = "CompositeLit" -> <<node.Type>>
                  [] node.k = "DeclStmt" ->
                       IF node.Decl.k = "GenDecl"
                       THEN LET valueSpecs == SelectSeq(node.Decl.Specs, LAMBDA sp : sp.k = "ValueSpec")
                            IN IF Len(valueSpecs) = 0 THEN <<>>
                               ELSE ElementType(valueSpecs[Len(valueSpecs)].Type)
                       ELSE <<>>
                  [] node.k = "Field" -> ElementType(<<node.Type>>)
                  [] OTHER -> <<>>
             deref == IF Len(typeExpr) > 0 /\ typeExpr[1].k = "StarExpr" THEN <<typeExpr[1].X>> ELSE typeExpr
         IN IF Len(deref) > 0 /\ deref[1].k = "SelectorExpr" /\ NamedElsewhere(deref[1].Sel.Obj, pkgPath)
            THEN {deref[1].Sel.Obj.Type.Str}
            ELSE {}

\* the key set of usedImportedStructs after the inspection of the file
UsedStructNames(file, pkg) ==
    LET nodes == Walk(file)
    IN UNION {UsedStructNamesOfNode(nodes[i], pkg.PkgPath) : i \in 1..Len(nodes)}

\* the slices extractUsedImportedStructInfoFromFile can return
extractUsedImportedStructInfoFromFile(file, pkg) ==
    MapValuesInAnyOrder([n \in UsedStructNames(file, pkg) |-> StructInfo(n, "", <<>>, <<>>)])

\* the top-level functions without receiver that the project's packages declare,
\* in the order the search loops meet them, as <<package path, declaration>>
ProjectFuncDecls(projectPkgs) ==
    Flatten([i \in 1..Len(projectPkgs) |->
        Flatten([j \in 1..Len(projectPkgs[i].Syntax) |->
            LET decls == SelectSeq(Walk(projectPkgs[i].Syntax[j]),
                                   LAMBDA n : n.k = "FuncDecl" /\ Len(n.Recv) = 0)
            IN [d \in 1..Len(decls) |-> <<projectPkgs[i].PkgPath, decls[d]>>]])])

\* what one call expression appends to usedImportedFunctions
UsedFunctionsOfCall(call, pkg, projectFuncDecls) ==
    IF /\ call.Fun.k = "SelectorExpr"
       /\ call.Fun.X.k = "Ident"
       /\ call.Fun.Sel.Obj.Kind = "Func"
       /\ call.Fun.Sel.Obj.Pkg # ""
       /\ call.Fun.Sel.Obj.Pkg # pkg.PkgPath
    THEN LET fqName == FuncString(call.Fun.Sel.Obj)
             found == SelectSeq(projectFuncDecls,
                                LAMBDA pd : FuncString(FuncObj(pd[1], pd[2].Name, SignatureString(pd[2].Type))) = fqName)
         IN IF Len(found) > 0
            THEN <<FunctionInfo(found[1][1] \o "." \o found[1][2].Name,
                                DocComment(found[1][2].Doc),
                                NamedTypeStrings(found[1][2].Type.Params),
                                TypeStrings(found[1][2].Type.Results))>>
            ELSE <<>>
    ELSE <<>>

extractUsedImportedFunctions(file, pkg, projectPkgs) ==
    LET calls == SelectSeq(Walk(file), LAMBDA n : n.k = "CallExpr")
        projectFuncDecls == ProjectFuncDecls(projectPkgs)
    IN Flatten([i \in 1..Len(calls) |-> UsedFunctionsOfCall(calls[i], pkg, projectFuncDecls)])

\* the value specs of the package with path pkgPath that declare `name`, in the
\* order the search meets them, as <<genDecl, valSpec, index of the name>>
ProjectValueSpecs(projectPkgs, pkgPath, name) ==
    LET pkgs == SelectSeq(projectPkgs, LAMBDA pp : pp.PkgPath = pkgPath)
    IN Flatten([i \in 1..Len(pkgs) |->
         Flatten([j \in 1..Len(pkgs[i].Syntax) |->
            LET specs == SelectSeq(SpecsOf(Walk(pkgs[i].Syntax[j])), LAMBDA gs : gs[2].k = "ValueSpec")
            IN Flatten([sp \in 1..Len(specs) |->
                 LET hits == SelectSeq([x \in 1..Len(specs[sp][2].Names) |-> x],
                                LAMBDA x : specs[sp][2].Names[x] = name /\ specs[sp][2].Defs[x].Kind # "nil")
                 IN [h \in 1..Len(hits) |-> <<specs[sp][1], specs[sp][2], hits[h]>>]])])])

\* the entry usedVars gets for the variable or constant obj
UsedGlobalVarOf(obj, projectPkgs) ==
    LET varName == obj.Pkg \o "." \o obj.Name
        found == ProjectValueSpecs(projectPkgs, obj.Pkg, obj.Name)
    IN IF Len(found) > 0
       THEN [extractGlobalVarInfo(found[1][2].Defs[found[1][3]], found[1][1], found[1][2], found[1][3])
                EXCEPT !.Name = varName]
       ELSE IF obj.Kind = "Const"
            THEN GlobalVarInfo(varName, "", obj.Type.Str, obj.Val, TRUE)
            ELSE GlobalVarInfo(varName, "", obj.Type.Str, "", FALSE)

\* usedVars after the inspection of the file
UsedGlobalVarsMap(file, pkg, projectPkgs) ==
    LET sels == SelectSeq(Walk(file),
                   LAMBDA n : /\ n.k = "SelectorExpr"
                              /\ n.Sel.Obj.Kind \in {"Var", "Const"}
                              /\ n.Sel.Obj.Pkg # ""
                              /\ n.Sel.Obj.Pkg # pkg.PkgPath)
        objs == {sels[i].Sel.Obj : i \in 1..Len(sels)}
    IN [n \in {o.Pkg \o "." \o o.Name : o \in objs} |->
          UsedGlobalVarOf(CHOOSE o \in objs : o.Pkg \o "." \o o.Name = n, projectPkgs)]

\* the slices extractUsedImportedGlobalVars can return
extractUsedImportedGlobalVars(file, pkg, projectPkgs) ==
    MapValuesInAnyOrder(UsedGlobalVarsMap(file, pkg, projectPkgs))

\* the FileInfos extractFileInfoForFile can return (one for each order in which
\* its maps are iterated)
extractFileInfoForFile(file, pkg, projectPkgs) ==
    LET imports == [i \in 1..Len(file.Imports) |-> TrimCutset(file.Imports[i].PathValue, "\"")]
        nodes == Walk(file)
        functions == LocalFunctions(nodes)
        globalVars == LocalGlobalVars(nodes)
        usedFunctions == extractUsedImportedFunctions(file, pkg, projectPkgs)
    IN {[PackageName |-> file.Name,
         Imports |-> imports,
         Functions |-> functions,
         Structs |-> structs,
         Interfaces |-> interfaces,
         GlobalVars |-> globalVars,
         UsedImportedStructs |-> usedStructs,
         UsedImportedFunctions |-> usedFunctions,
         UsedImportedGlobalVars |-> usedVars,
         \* extractUsedImportedFunctions returns its "var usedImportedFunctions
         \* []*FunctionInfo", which is nil until something is appended to it;
         \* every other list is made by NewFileInfo or by make(..., 0, n)
         NilFields |-> IF Len(usedFunctions) = 0 THEN {"UsedImportedFunctions"} ELSE {}] :
           structs \in MapValuesInAnyOrder(LocalStructsMap(nodes, file, pkg)),
           interfaces \in MapValuesInAnyOrder(LocalInterfacesMap(nodes, file, pkg)),
           usedStructs \in extractUsedImportedStructInfoFromFile(file, pkg),
           usedVars \in extractUsedImportedGlobalVars(file, pkg, projectPkgs)}

\* the files of the loaded packages, as <<package, file>>, in the order of the
\* loops "for _, pkg := range pkgs { for i, file := range pkg.Syntax {"
LoadedFiles(pkgs) ==
    Flatten([i \in 1..Len(pkgs) |-> [j \in 1..Len(pkgs[i].Syntax) |-> <<pkgs[i], pkgs[i].Syntax[j]>>]])

RECURSIVE FileInfosOf(_, _)
\* the fileInfos maps the loops can build over files: fileInfos[absolutePath] =
\* fileInfo for each file in turn
FileInfosOf(files, pkgs) ==
    IF Len(files) = 0 THEN {EmptyProjectInfo}
    ELSE LET before == FileInfosOf(SubSeq(files, 1, Len(files) - 1), pkgs)
             pkg == files[Len(files)][1]
             file == files[Len(files)][2]
             infos == extractFileInfoForFile(file, pkg, pkgs)
         IN {[path \in (DOMAIN fileInfos) \cup {file.Path} |->
                 IF path = file.Path THEN fileInfo ELSE fileInfos[path]] :
               fileInfos \in before, fileInfo \in infos}

\* ParseProject(projectPath) on the tree t: the results it can return.  Package
\* errors are only logged.
ParseProject(projectPath, t) ==
    LET pkgs == LoadPackages(t)
    IN IF LoadError(t) # NilError
       THEN {[info |-> EmptyProjectInfo, err |-> <<"failed to load packages: " \o LoadError(t)[1]>>]}
       ELSE IF Len(pkgs) = 0
       THEN {[info |-> EmptyProjectInfo, err |-> <<"no packages found in " \o projectPath>>]}
       ELSE {[info |-> fileInfos, err |-> NilError] : fileInfos \in FileInfosOf(LoadedFiles(pkgs), pkgs)}

----------------------------------------------------------------------------
(* internal/parser: BuildGraph *)

Node(pkgPath, files, dependsOn, functions) ==
    [PkgPath |-> pkgPath, Files |-> files, DependsOn |-> dependsOn, Functions |-> functions]

\* the names of all functions of the file, exported or not
AllFuncNames(file) ==
    LET decls == SelectSeq(Walk(file), LAMBDA n : n.k = "FuncDecl")
    IN [i \in 1..Len(decls) |-> decls[i].Name]

\* the names appended to node.Functions for one file
ExportedFuncNames(file) ==
    LET decls == SelectSeq(Walk(file), LAMBDA n : n.k = "FuncDecl" /\ IsExported(n.Name))
    IN [i \in 1..Len(decls) |-> decls[i].Name]

\* the Nodes BuildGraph can build for a package (one for each order of
\* "for impPath := range pkg.Imports")
NodesOfPackage(pkg) ==
    LET functions == Flatten([i \in 1..Len(pkg.Syntax) |-> ExportedFuncNames(pkg.Syntax[i])])
    IN {Node(pkg.PkgPath, pkg.GoFiles, dependsOn, functions) : dependsOn \in Orders(pkg.Imports)}

NoNodes == [p \in {} |-> Node("", <<>>, <<>>, <<>>)]

RECURSIVE GraphNodesOfEveryPackage(_)
\* a loop that makes a Node for the packages with errors too
GraphNodesOfEveryPackage(pkgs) ==
    IF Len(pkgs) = 0 THEN {NoNodes}
    ELSE LET before == GraphNodesOfEveryPackage(SubSeq(pkgs, 1, Len(pkgs) - 1))
             pkg == pkgs[Len(pkgs)]
         IN {[pkgPath \in (DOMAIN nodes) \cup {pkg.PkgPath} |->
                 IF pkgPath = pkg.PkgPath THEN node ELSE nodes[pkgPath]] :
               nodes \in before, node \in NodesOfPackage(pkg)}

RECURSIVE GraphNodesOf(_)
\* the graph.Nodes maps the loop over pkgs can build: a package with errors is
\* skipped, graph.Nodes[pkg.PkgPath] = node for each other one in turn
GraphNodesOf(pkgs) ==
    IF Len(pkgs) = 0 THEN {NoNodes}
    ELSE LET before == GraphNodesOf(SubSeq(pkgs, 1, Len(pkgs) - 1))
             pkg == pkgs[Len(pkgs)]
         IN IF pkg.Errors THEN before
            ELSE {[pkgPath \in (DOMAIN nodes) \cup {pkg.PkgPath} |->
                      IF pkgPath = pkg.PkgPath THEN node ELSE nodes[pkgPath]] :
                    nodes \in before, node \in NodesOfPackage(pkg)}

\* (*ProjectParser).BuildGraph(rootPath) on the tree t: the results it can return
BuildGraph(t) ==
    IF LoadError(t) # NilError
    THEN {[nodes |-> NoNodes, isNil |-> TRUE, err |-> LoadError(t)]}
    ELSE {[nodes |-> nodes, isNil |-> FALSE, err |-> NilError] : nodes \in GraphNodesOf(LoadPackages(t))}

----------------------------------------------------------------------------
(* cmd/parser-cli: the cache of analyzeProject.  The goroutines that take       *)
(* fileInfoCacheLock are <<"analyzeProject", c>>, the call of caller c, and     *)
(* <<"cleanup", c>>, the cleanup goroutine that call started; <<>> is no        *)
(* goroutine.  A cached result is the map a pass returned: the set of the file  *)
(* paths it has FileInfos for, and the pass (the caller's call) that made it.   *)

\* a lookup after which the miss path goes on to the pass with the read lock held
AfterLookupKeepLock(ok) == IF ok THEN "hitRUnlock" ELSE "parsing"

\* where analyzeProject goes on after the lookup: both paths release the read lock
AfterLookup(ok) == IF ok THEN "hitRUnlock" ELSE "missRUnlock"

\* a call that caches the result of a failed pass as well
AfterParseIgnoringError(err) == "Lock"

\* where analyzeProject goes on after ParseProject: an error ends the call
AfterParse(err) == IF err # NilError THEN "done" ELSE "Lock"

----------------------------------------------------------------------------
(* internal/mcp: build_dep_graph *)

\* the budget of the handler's timer, in seconds
TimeoutSeconds == 30

\* a timer that never fires
TimerNeverFires(seconds) == FALSE

\* has the channel of time.After(30 * time.Second) a value
TimerFired(seconds) == seconds >= TimeoutSeconds

\* a handler that takes every build for a success
GraphBuildNeverFailed(graphErr) == FALSE

\* if graphErr != nil
GraphBuildFailed(graphErr) == graphErr # NilError

----------------------------------------------------------------------------
(* The state machine.  The parser, the graph builder and the composer keep no  *)
(* state between calls, so a behaviour follows one caller: it composes a        *)
(* ProjectInfo it built itself, or parses a project tree (again and again) and  *)
(* composes the result, or builds the dependency graph of a tree.               *)

Init ==
    /\ session = "idle"
    /\ project = [uses |-> {}, errs |-> {}, load |-> "none"]
    /\ projectInfo = EmptyProjectInfo
    /\ parseErr = NilError
    /\ composed = <<>>
    /\ graph = [nodes |-> NoNodes, isNil |-> TRUE, err |-> NilError]
    /\ fileInfoCache = <<>>
    /\ fileInfoCacheLock = [readers |-> {}, writer |-> <<>>]
    /\ analyze = [c \in 1..MaxCallers |->
                    [pc |-> "idle", path |-> "", hit |-> FALSE, fileInfos |-> {}, out |-> <<>>]]
    /\ cleanup = [c \in 1..MaxCallers |-> "none"]
    /\ handler = [pc |-> "idle", tree |-> [uses |-> {}, errs |-> {}, load |-> "none"],
                  response |-> <<>>, err |-> NilError]
    /\ worker = [pc |-> "none", graph |-> [nodes |-> NoNodes, isNil |-> TRUE], graphErr |-> NilError]
    /\ done = FALSE
    /\ elapsed = 0

\* composer.New(projectInfo) on a ProjectInfo built by the caller
NewComposer ==
    /\ session = "idle"
    /\ \/ projectInfo' = EmptyProjectInfo
       \/ \E d \in ManualDefs, u \in ManualUsed : projectInfo' = ManualProjectInfo(d, u)
    /\ session' = "manual"
    /\ UNCHANGED <<project, parseErr, composed, graph, cacheVars, handlerVars>>

\* ParseProject(ProjectPath) and composer.New on its result; a later pass runs on
\* the same, unchanged tree
ParseProjectCall ==
    /\ session \in {"idle", "parsed"}
    /\ \E t \in (IF session = "parsed" THEN {project} ELSE Projects) :
          /\ project' = t
          /\ \E r \in ParseProject(ProjectPath, t) :
                /\ projectInfo' = r.info
                /\ parseErr' = r.err
                /\ session' = IF r.err = NilError THEN "parsed" ELSE "failed"
    /\ composed' = <<>>
    /\ UNCHANGED <<graph, cacheVars, handlerVars>>

\* one call of Compose(filePath) on the composer's ProjectInfo
ComposeCall ==
    /\ session \in {"manual", "parsed"}
    /\ \E filePath \in RequestPaths, order \in Orders(DOMAIN projectInfo) :
          LET res == Compose(projectInfo, filePath, order)
          IN composed' = <<[filePath |-> filePath, out |-> res.out, err |-> res.err]>>
    /\ UNCHANGED <<session, project, projectInfo, parseErr, graph, cacheVars, handlerVars>>

\* BuildGraph(ProjectPath)
BuildGraphCall ==
    /\ session = "idle"
    /\ \E t \in Projects :
          /\ project' = t
          /\ graph' \in BuildGraph(t)
    /\ session' = "graph"
    /\ UNCHANGED <<projectInfo, parseErr, composed, cacheVars, handlerVars>>

Next ==
    \/ NewComposer
    \/ ParseProjectCall
    \/ ComposeCall
    \/ BuildGraphCall

Spec == Init /\ [][Next]_vars

----------------------------------------------------------------------------
(* cmd/parser-cli: analyzeProject.  Callers run it concurrently; every lock    *)
(* operation, map access and pass is a step of its goroutine.                   *)

\* analyzeProject is called with an absolute path (filepath.Abs returns it as it
\* is): the directory does not exist (return), or the cache is to be checked
StartAnalyze(c) ==
    /\ analyze[c].pc = "idle"
    /\ \E path \in {ProjectPath, "/nowhere"} :
          analyze' = [analyze EXCEPT ![c].path = path,
                                     ![c].pc = IF path = ProjectPath THEN "RLock" ELSE "done",
                                     ![c].out = IF path = ProjectPath THEN <<>>
                                                ELSE <<"Error: directory " \o path \o " does not exist">>]
    /\ UNCHANGED <<parserVars, fileInfoCache, fileInfoCacheLock, cleanup, handlerVars>>

\* fileInfoCacheLock.RLock()
RLock(c) ==
    /\ analyze[c].pc = "RLock"
    /\ fileInfoCacheLock.writer = <<>>
    /\ fileInfoCacheLock' = [fileInfoCacheLock EXCEPT !.readers = @ \cup {<<"analyzeProject", c>>}]
    /\ analyze' = [analyze EXCEPT ![c].pc = "lookup"]
    /\ UNCHANGED <<parserVars, fileInfoCache, cleanup, handlerVars>>

\* cached, ok := fileInfoCache[absPath]
Lookup(c) ==
    /\ analyze[c].pc = "lookup"
    /\ LET ok == analyze[c].path \in DOMAIN fileInfoCache
       IN analyze' = [analyze EXCEPT ![c].hit = ok,
                                     ![c].fileInfos = IF ok THEN fileInfoCache[analyze[c].path].fileInfos ELSE {},
                                     ![c].pc = AfterLookup(ok)]
    /\ UNCHANGED <<parserVars, fileInfoCache, fileInfoCacheLock, cleanup, handlerVars>>

\* fileInfoCacheLock.RUnlock(), on the hit path and on the miss path; after it
\* the cached value is printed or the pass starts
RUnlock(c) ==
    /\ analyze[c].pc \in {"hitRUnlock", "missRUnlock"}
    /\ fileInfoCacheLock' = [fileInfoCacheLock EXCEPT !.readers = @ \ {<<"analyzeProject", c>>}]
    /\ analyze' = [analyze EXCEPT ![c].pc = IF analyze[c].hit THEN "print" ELSE "parsing"]
    /\ UNCHANGED <<parserVars, fileInfoCache, cleanup, handlerVars>>

\* p.ParseProject(absPath) returns (the directory holds the two packages, or no
\* package): an error ends the call, a result is to be cached
ParseReturn(c) ==
    /\ analyze[c].pc = "parsing"
    /\ \E t \in {[uses |-> {}, errs |-> {}, load |-> l] : l \in {"ok", "none"}} :
          \E r \in ParseProject(analyze[c].path, t) :
             analyze' = [analyze EXCEPT
                            ![c].fileInfos = DOMAIN r.info,
                            ![c].pc = AfterParse(r.err),
                            ![c].out = IF r.err # NilError
                                       THEN <<"Error parsing project: " \o r.err[1]>> ELSE <<>>]
    /\ UNCHANGED <<parserVars, fileInfoCache, fileInfoCacheLock, cleanup, handlerVars>>

\* fileInfoCacheLock.Lock()
Lock(c) ==
    /\ analyze[c].pc = "Lock"
    /\ fileInfoCacheLock.writer = <<>>
    /\ fileInfoCacheLock.readers = {}
    /\ fileInfoCacheLock' = [fileInfoCacheLock EXCEPT !.writer = <<"analyzeProject", c>>]
    /\ analyze' = [analyze EXCEPT ![c].pc = "store"]
    /\ UNCHANGED <<parserVars, fileInfoCache, cleanup, handlerVars>>

\* fileInfoCache[absPath] = fileInfos
Store(c) ==
    /\ analyze[c].pc = "store"
    /\ fileInfoCache' = [path \in (DOMAIN fileInfoCache) \cup {analyze[c].path} |->
                            IF path = analyze[c].path
                            THEN [fileInfos |-> analyze[c].fileInfos, pass |-> c]
                            ELSE fileInfoCache[path]]
    /\ analyze' = [analyze EXCEPT ![c].pc = "Unlock"]
    /\ UNCHANGED <<parserVars, fileInfoCacheLock, cleanup, handlerVars>>

\* fileInfoCacheLock.Unlock(), and the cleanup goroutine is started:
\* go func() { time.Sleep(cacheTimeout); ... }()
Unlock(c) ==
    /\ analyze[c].pc = "Unlock"
    /\ fileInfoCacheLock' = [fileInfoCacheLock EXCEPT !.writer = <<>>]
    /\ cleanup' = [cleanup EXCEPT ![c] = "sleep"]
    /\ analyze' = [analyze EXCEPT ![c].pc = "print"]
    /\ UNCHANGED <<parserVars, fileInfoCache, handlerVars>>

\* the result (cached or fresh) is printed: "Project Information:" and the files
PrintResult(c) ==
    /\ analyze[c].pc = "print"
    /\ analyze' = [analyze EXCEPT ![c].pc = "done",
                                  ![c].out = <<"Project Information:", analyze[c].fileInfos>>]
    /\ UNCHANGED <<parserVars, fileInfoCache, fileInfoCacheLock, cleanup, handlerVars>>

\* the cleanup goroutine: cacheTimeout has passed, fileInfoCacheLock.Lock()
CleanupLock(c) ==
    /\ cleanup[c] = "sleep"
    /\ fileInfoCacheLock.writer = <<>>
    /\ fileInfoCacheLock.readers = {}
    /\ fileInfoCacheLock' = [fileInfoCacheLock EXCEPT !.writer = <<"cleanup", c>>]
    /\ cleanup' = [cleanup EXCEPT ![c] = "delete"]
    /\ UNCHANGED <<parserVars, fileInfoCache, analyze, handlerVars>>

\* delete(fileInfoCache, absPath)
CleanupDelete(c) ==
    /\ cleanup[c] = "delete"
    /\ fileInfoCache' = [path \in (DOMAIN fileInfoCache) \ {analyze[c].path} |-> fileInfoCache[path]]
    /\ cleanup' = [cleanup EXCEPT ![c] = "Unlock"]
    /\ UNCHANGED <<parserVars, fileInfoCacheLock, analyze, handlerVars>>

\* fileInfoCacheLock.Unlock() of the cleanup goroutine
CleanupUnlock(c) ==
    /\ cleanup[c] = "Unlock"
    /\ fileInfoCacheLock' = [fileInfoCacheLock EXCEPT !.writer = <<>>]
    /\ cleanup' = [cleanup EXCEPT ![c] = "done"]
    /\ UNCHANGED <<parserVars, fileInfoCache, analyze, handlerVars>>

CacheNext ==
    \/ \E c \in 1..MaxCallers : StartAnalyze(c)
    \/ \E c \in 1..MaxCallers : RLock(c)
    \/ \E c \in 1..MaxCallers : Lookup(c)
    \/ \E c \in 1..MaxCallers : RUnlock(c)
    \/ \E c \in 1..MaxCallers : ParseReturn(c)
    \/ \E c \in 1..MaxCallers : Lock(c)
    \/ \E c \in 1..MaxCallers : Store(c)
    \/ \E c \in 1..MaxCallers : Unlock(c)
    \/ \E c \in 1..MaxCallers : PrintResult(c)
    \/ \E c \in 1..MaxCallers : CleanupLock(c)
    \/ \E c \in 1..MaxCallers : CleanupDelete(c)
    \/ \E c \in 1..MaxCallers : CleanupUnlock(c)

CacheSpec == Init /\ [][CacheNext]_vars

----------------------------------------------------------------------------
(* internal/mcp: the build_dep_graph handler.  It starts BuildGraph in a       *)
(* goroutine and waits in a select for the channel done or for the timer.      *)
(* BuildGraph takes any time, or never returns.                                 *)

\* the handler is called for a directory (both packages load, one or both have
\* errors, no package matches, or the load fails): it makes the channel, starts
\* the goroutine and waits
HandleRequest ==
    /\ handler.pc = "idle"
    /\ \E t \in {t \in [uses : {{}}, errs : SUBSET {Pkg1Path, Pkg2Path}, load : {"ok", "none", "error"}] :
                    t.load # "ok" => t.errs = {}} :
          handler' = [handler EXCEPT !.pc = "select", !.tree = t]
    /\ worker' = [worker EXCEPT !.pc = "running"]
    /\ UNCHANGED <<parserVars, cacheVars, done, elapsed>>

\* a second passes while the handler waits
Tick ==
    /\ handler.pc = "select"
    /\ elapsed < TimeoutSeconds
    /\ elapsed' = elapsed + 1
    /\ UNCHANGED <<parserVars, cacheVars, handler, worker, done>>

\* the goroutine: graph, graphErr = p.BuildGraph(args.RootDir)
BuildGraphReturns ==
    /\ worker.pc = "running"
    /\ \E r \in BuildGraph(handler.tree) :
          worker' = [pc |-> "close", graph |-> [nodes |-> r.nodes, isNil |-> r.isNil], graphErr |-> r.err]
    /\ UNCHANGED <<parserVars, cacheVars, handler, done, elapsed>>

\* the goroutine: close(done), which waits for no receiver
CloseDone ==
    /\ worker.pc = "close"
    /\ worker' = [worker EXCEPT !.pc = "done"]
    /\ done' = TRUE
    /\ UNCHANGED <<parserVars, cacheVars, handler, elapsed>>

\* case <-done: the error of BuildGraph wrapped, or the response with the text
\* content compressJSON(json.Marshal(graph.Nodes)): the zstd frame of the JSON
\* text of the nodes
SelectDone ==
    /\ handler.pc = "select"
    /\ done
    /\ handler' = [handler EXCEPT
                      !.pc = "returned",
                      !.err = IF GraphBuildFailed(worker.graphErr)
                              THEN <<"graph build failed: " \o worker.graphErr[1]>> ELSE NilError,
                      !.response = IF GraphBuildFailed(worker.graphErr) THEN <<>>
                                   ELSE <<[type |-> "text",
                                           text |-> <<"zstd", <<"json", worker.graph.nodes>>>>]>>]
    /\ UNCHANGED <<parserVars, cacheVars, worker, done, elapsed>>

\* case <-time.After(30 * time.Second)
SelectTimeout ==
    /\ handler.pc = "select"
    /\ TimerFired(elapsed)
    /\ handler' = [handler EXCEPT !.pc = "returned",
                                  !.err = <<"graph build timed out after 30 seconds">>,
                                  !.response = <<>>]
    /\ UNCHANGED <<parserVars, cacheVars, worker, done, elapsed>>

HandlerNext ==
    \/ HandleRequest
    \/ Tick
    \/ BuildGraphReturns
    \/ CloseDone
    \/ SelectDone
    \/ SelectTimeout

\* time passes, and a select with a ready case does not wait; nothing says
\* that BuildGraph ever returns
HandlerSpec ==
    /\ Init
    /\ [][HandlerNext]_vars
    /\ WF_vars(Tick)
    /\ WF_vars(SelectDone)
    /\ WF_vars(SelectTimeout)

----------------------------------------------------------------------------
(* Properties.  They speak of the last Compose call (composed), of the       *)
(* ProjectInfo it ran on, of the tree that was parsed and of the graph.       *)

\* there was a Compose call, and the path it asked for is a key of projectInfo
Found == composed # <<>> /\ composed[1].filePath \in DOMAIN projectInfo

\* the FileInfo the last Compose call rendered
Target == projectInfo[composed[1].filePath]

\* the two spellings of the header of the used-items section
UsedHeaders == {"Used Items From Other Packages:", UsedItemsHeader}

\* the lines (of a text) that follow line number i
LinesAfter(lines, i) == SubSeq(lines, i + 1, Len(lines))

\* the used-items section of a text: the lines after its header
UsedItemsOf(lines) ==
    LET at == {i \in 1..Len(lines) : lines[i] \in UsedHeaders}
    IN IF at = {} THEN <<>> ELSE LinesAfter(lines, CHOOSE i \in at : \A j \in at : i <= j)

StartsWith(str, prefix) == Len(str) >= Len(prefix) /\ SubSeq(str, 1, Len(prefix)) = prefix

EndsWith(str, suffix) ==
    Len(str) >= Len(suffix) /\ SubSeq(str, Len(str) - Len(suffix) + 1, Len(str)) = suffix

\* does the line open a block, or is it the bare line, of the item named n
OpensItem(line, n) ==
    \/ TrimLeft(line) \in {"Struct: " \o n, "Interface: " \o n, "Function: " \o n}
    \/ line = "- " \o n
    \/ StartsWith(TrimLeft(line), "Const: " \o n \o " ")
    \/ StartsWith(TrimLeft(line), "Var: " \o n \o " ")

\* do the lines hold the block, as consecutive lines
HoldsBlock(lines, block) ==
    \E k \in 0..(Len(lines) - Len(block)) : SubSeq(lines, k + 1, k + Len(block)) = block

NamesOf(list) == {list[i].Name : i \in 1..Len(list)}

\* the names in the used-imported lists of a FileInfo
UsedNames(fileInfo) ==
    NamesOf(fileInfo.UsedImportedStructs) \cup NamesOf(fileInfo.UsedImportedFunctions)
    \cup NamesOf(fileInfo.UsedImportedGlobalVars)

\* the blocks of the local definitions named n in the files of the ProjectInfo
DefinitionBlocks(pi, n) ==
    UNION {{FormatStruct(pi[p].Structs[i], "  ") : i \in {i \in 1..Len(pi[p].Structs) : pi[p].Structs[i].Name = n}}
           \cup {FormatInterface(pi[p].Interfaces[i], "  ") :
                    i \in {i \in 1..Len(pi[p].Interfaces) : pi[p].Interfaces[i].Name = n}}
           \cup {FormatFunction(pi[p].Functions[i], "  ") :
                    i \in {i \in 1..Len(pi[p].Functions) : pi[p].Functions[i].Name = n}} : p \in DOMAIN pi}

\* C1: Compose(filePath) for a filePath that is not a key of the ProjectInfo
\* returns the empty text and the error "file info not found for path: <filePath>",
\* never a nil error.
C1_ComposeNotFound ==
    (composed # <<>> /\ composed[1].filePath \notin DOMAIN projectInfo)
    => /\ composed[1].out = <<>>
       /\ composed[1].err = <<"file info not found for path: " \o composed[1].filePath>>
       /\ composed[1].err # NilError

\* C1 happens: a ProjectInfo with files was asked for /path/to/nonexistent.go
C1_Witness ==
    /\ composed # <<>>
    /\ DOMAIN projectInfo # {}
    /\ composed[1].filePath = NonexistentPath
    /\ composed[1].err = <<"file info not found for path: /path/to/nonexistent.go">>

\* C2: when a name occurs in two (or all three) of the used-imported lists of
\* the composed file, the used-items section of the text has exactly one block
\* or bare line for that name.
C2_Dedup ==
    Found =>
        LET inStructs == NamesOf(Target.UsedImportedStructs)
            inFunctions == NamesOf(Target.UsedImportedFunctions)
            inGlobalVars == NamesOf(Target.UsedImportedGlobalVars)
            used == UsedItemsOf(composed[1].out)
        IN \A n \in (inStructs \cap inFunctions) \cup (inStructs \cap inGlobalVars)
                    \cup (inFunctions \cap inGlobalVars) :
              Cardinality({i \in 1..Len(used) : OpensItem(used[i], n)}) = 1

\* C3: when a name in the used-imported lists of the composed file is the Name
\* of a local struct, interface or function of a file of the ProjectInfo, the
\* used-items section holds the full block of that definition and never the
\* bare line "- <name>".
C3_Enrichment ==
    Found =>
        LET used == UsedItemsOf(composed[1].out)
        IN \A n \in UsedNames(Target) :
              DefinitionBlocks(projectInfo, n) # {}
              => /\ \E block \in DefinitionBlocks(projectInfo, n) : HoldsBlock(used, block)
                 /\ \A i \in 1..Len(used) : used[i] # "- " \o n

\* C4: a ParseProject run over the tree that was parsed before gives a
\* ProjectInfo for which Compose returns, for every file, the text it returned
\* for the ProjectInfo of the run before.
C4_Determinism ==
    [][(session = "parsed" /\ session' = "parsed")
       => \A p \in DOMAIN projectInfo :
             \A o1, o2 \in Orders(DOMAIN projectInfo) :
                Compose(projectInfo', p, o2).out = Compose(projectInfo, p, o1).out]_vars

\* C5: Compose of a path that is a key of the ProjectInfo a successful
\* ParseProject returned gives a nil error.
C5_ParsedPathsAreFound ==
    (session = "parsed" /\ Found) => composed[1].err = NilError

\* C5 happens: a file of a parsed project was composed
C5_Witness ==
    /\ session = "parsed"
    /\ Found
    /\ composed[1].filePath = ConsumerGo
    /\ Len(composed[1].out) > 3

\* has the FileInfo nothing but a package name
PackageOnly(fileInfo) ==
    /\ Len(fileInfo.Imports) = 0
    /\ Len(fileInfo.Functions) = 0
    /\ Len(fileInfo.Structs) = 0
    /\ Len(fileInfo.Interfaces) = 0
    /\ Len(fileInfo.GlobalVars) = 0
    /\ Len(fileInfo.UsedImportedStructs) = 0
    /\ Len(fileInfo.UsedImportedFunctions) = 0
    /\ Len(fileInfo.UsedImportedGlobalVars) = 0

\* C6: for a FileInfo with only a package name Compose returns exactly the
\* lines "--- File: <path> ---", "Package: <name>" and one blank line.
C6_PackageOnlyFile ==
    (Found /\ PackageOnly(Target))
    => /\ composed[1].err = NilError
       /\ composed[1].out = <<"--- File: " \o composed[1].filePath \o " ---",
                              "Package: " \o Target.PackageName, "">>

\* C6 happens: pkg2/consumer.go without imports and declarations was composed
C6_Witness ==
    /\ session = "parsed"
    /\ Found
    /\ composed[1].filePath = ConsumerGo
    /\ PackageOnly(Target)
    /\ composed[1].out = <<"--- File: /testproject/pkg2/consumer.go ---", "Package: pkg2", "">>

\* C7: when a name in the used-imported lists of the composed file is the Name
\* of no local struct, interface or function of the ProjectInfo, Compose
\* returns a nil error and the text has, under the header "Used Items From
\* Other Packages:", exactly one line "- <name>".
C7_ResolutionMiss ==
    Found =>
        \A n \in UsedNames(Target) :
           DefinitionBlocks(projectInfo, n) = {}
           => /\ composed[1].err = NilError
              /\ \E h \in 1..Len(composed[1].out) :
                    /\ composed[1].out[h] = "Used Items From Other Packages:"
                    /\ Cardinality({i \in (h + 1)..Len(composed[1].out) :
                                      composed[1].out[i] = "- " \o n}) = 1

\* C8: when pkg2 has a function with a parameter of the struct type pkg1.Data,
\* ParseProject puts <pkg1 path>.Data in the used-imported-structs of the pkg2
\* file, and the used-items section of the text of that file holds the struct
\* block with its field line "- Value string" and no bare line for the struct.
C8_ScenarioA ==
    (session = "parsed" /\ "ProcessData" \in project.uses)
    => /\ "example.com/testproject/pkg1.Data" \in NamesOf(projectInfo[ConsumerGo].UsedImportedStructs)
       /\ (composed # <<>> /\ composed[1].filePath = ConsumerGo)
          => LET used == UsedItemsOf(composed[1].out)
             IN /\ \E i \in 1..Len(used) :
                      /\ used[i] = "  Struct: example.com/testproject/pkg1.Data"
                      /\ \E j \in (i + 1)..(Len(used) - 1) :
                            /\ TrimLeft(used[j]) = "Fields:"
                            /\ TrimLeft(used[j + 1]) = "- Value string"
                            /\ \A l \in (i + 1)..j : ~StartsWith(TrimLeft(used[l]), "Struct: ")
                /\ \A i \in 1..Len(used) : used[i] # "- example.com/testproject/pkg1.Data"

\* C8 happens: the pkg2 file with ProcessData(d pkg1.Data) was composed
C8_Witness ==
    /\ session = "parsed"
    /\ "ProcessData" \in project.uses
    /\ composed # <<>>
    /\ composed[1].filePath = ConsumerGo
    /\ \E i \in 1..Len(composed[1].out) : composed[1].out[i] = "      - Value string"

\* C9: when the pkg2 file refers to the constant pkg1.X (const X = 42), its
\* used-imported-global-vars has an entry with the fully-qualified name,
\* IsConst = TRUE and the value 42, and the used-items section of its text has
\* the line "Const: <pkg1 path>.X <type> = 42" followed by its "Comment:" line;
\* a variable pkg1.V referred to is rendered with "Var:".
C9_ScenarioB ==
    (session = "parsed")
    => /\ "RefConst" \in project.uses
          => /\ \E i \in 1..Len(projectInfo[ConsumerGo].UsedImportedGlobalVars) :
                   LET gv == projectInfo[ConsumerGo].UsedImportedGlobalVars[i]
                   IN gv.Name = "example.com/testproject/pkg1.X" /\ gv.IsConst /\ gv.Value = "42"
             /\ (composed # <<>> /\ composed[1].filePath = ConsumerGo)
                => LET used == UsedItemsOf(composed[1].out)
                   IN \E i \in 1..(Len(used) - 1) :
                         /\ StartsWith(TrimLeft(used[i]), "Const: example.com/testproject/pkg1.X ")
                         /\ EndsWith(used[i], " = 42")
                         /\ TrimLeft(used[i + 1]) = "Comment: X is an awesome constant."
       /\ ("RefVar" \in project.uses /\ composed # <<>> /\ composed[1].filePath = ConsumerGo)
          => \E i \in 1..Len(UsedItemsOf(composed[1].out)) :
                StartsWith(TrimLeft(UsedItemsOf(composed[1].out)[i]), "Var: example.com/testproject/pkg1.V ")

\* the names of the top-level declarations of functions (with or without
\* receiver) of a package of the tree
DeclaredFuncNames(pkg) ==
    UNION {{pkg.Syntax[i].Decls[j].Name :
              j \in {j \in 1..Len(pkg.Syntax[i].Decls) : pkg.Syntax[i].Decls[j].k = "FuncDecl"}} :
           i \in 1..Len(pkg.Syntax)}

\* C10: after BuildGraph over a project (whose packages load without errors)
\* in which pkg2 imports pkg1, Nodes has a Node for pkg1 and one for pkg2,
\* pkg2's DependsOn contains the path of pkg1, and the Functions of each Node
\* contain every exported function declared in the package and no unexported one.
C10_ScenarioC ==
    (/\ session = "graph"
     /\ project.load = "ok"
     /\ project.errs = {}
     /\ \E u \in project.uses : Pkg1Path \in UsePool[u].imports)
    => /\ graph.err = NilError
       /\ {Pkg1Path, Pkg2Path} \subseteq DOMAIN graph.nodes
       /\ Pkg1Path \in Range(graph.nodes[Pkg2Path].DependsOn)
       /\ \A i \in 1..Len(LoadPackages(project)) :
             LET pkg == LoadPackages(project)[i]
                 functions == Range(graph.nodes[pkg.PkgPath].Functions)
             IN \A name \in DeclaredFuncNames(pkg) :
                   (SubSeq(name, 1, 1) \in UpperCase) <=> (name \in functions)

\* C10 happens: the graph of a project in which pkg2 imports pkg1 and declares
\* the unexported function process was built
C10_Witness ==
    /\ session = "graph"
    /\ project.errs = {}
    /\ project.uses = {"CallFoo", "Unexported"}
    /\ Pkg1Path \in Range(graph.nodes[Pkg2Path].DependsOn)
    /\ "Foo" \in Range(graph.nodes[Pkg1Path].Functions)
    /\ "process" \notin Range(graph.nodes[Pkg2Path].Functions)

\* is the line one of the lines of the text
HasLine(lines, line) == \E i \in 1..Len(lines) : lines[i] = line

\* C11: in the text of a composed file each of the headers "Imports:",
\* "Functions:", "Global Variables/Constants:", "Local Structs:" and "Local
\* Interfaces:" occurs exactly when the FileInfo's list of that section is
\* non-empty, and the header "Used Items From Other Packages:" occurs exactly
\* when one of the three used-imported lists is non-empty.
C11_SectionPresence ==
    (Found /\ composed[1].err = NilError)
    => LET out == composed[1].out
       IN /\ HasLine(out, "Imports:") <=> (Len(Target.Imports) > 0)
          /\ HasLine(out, "Functions:") <=> (Len(Target.Functions) > 0)
          /\ HasLine(out, "Global Variables/Constants:") <=> (Len(Target.GlobalVars) > 0)
          /\ HasLine(out, "Local Structs:") <=> (Len(Target.Structs) > 0)
          /\ HasLine(out, "Local Interfaces:") <=> (Len(Target.Interfaces) > 0)
          /\ HasLine(out, "Used Items From Other Packages:")
             <=> (\/ Len(Target.UsedImportedStructs) > 0
                  \/ Len(Target.UsedImportedFunctions) > 0
                  \/ Len(Target.UsedImportedGlobalVars) > 0)

\* the headers of the sections of the local declarations
SectionHeaders ==
    {"Imports:", "Functions:", "Global Variables/Constants:", "Local Structs:", "Local Interfaces:"}

\* C12: in the text of a composed file every section header (Imports,
\* Functions, Global Variables/Constants, Local Structs, Local Interfaces) comes
\* after exactly one blank line: the line before it is blank and the line
\* before that one is not, so the header block and each populated section are
\* parted from the next section by one blank line.
C12_BlankLineBetweenSections ==
    Found =>
        \A i \in 1..Len(composed[1].out) :
           composed[1].out[i] \in SectionHeaders
           => /\ i > 2
              /\ composed[1].out[i - 1] = ""
              /\ composed[1].out[i - 2] # ""

\* the sequence fields of a FileInfo
SequenceFields ==
    {"Imports", "Functions", "Structs", "Interfaces", "GlobalVars", "UsedImportedStructs",
     "UsedImportedFunctions", "UsedImportedGlobalVars"}

\* C13: every sequence field of the FileInfo made by NewFileInfo, and of every
\* FileInfo in the ProjectInfo a successful ParseProject returned, is an empty
\* or filled sequence, never the nil slice.
C13_SequenceFieldsNotNil ==
    /\ NewFileInfo.NilFields \cap SequenceFields = {}
    /\ session = "parsed"
       => \A p \in DOMAIN projectInfo : projectInfo[p].NilFields \cap SequenceFields = {}

\* C14: when the frontend loads no package for the root directory, ParseProject
\* returns no ProjectInfo and the error "no packages found in <rootDir>", and
\* BuildGraph returns an error and no graph.
C14_NoPackagesIsFatal ==
    /\ (session = "failed" /\ project.load = "none")
       => /\ projectInfo = EmptyProjectInfo
          /\ parseErr = <<"no packages found in " \o ProjectPath>>
    /\ (session = "graph" /\ project.load = "none")
       => /\ graph.err # NilError
          /\ graph.isNil

\* C15: BuildGraph over loaded packages returns a nil error and a graph whose
\* Nodes are exactly the packages without load errors: no Node of any kind for
\* a package with errors, one Node for each other package.
C15_BuildGraphSkipsErrorPackages ==
    (session = "graph" /\ project.load = "ok")
    => /\ graph.err = NilError
       /\ ~graph.isNil
       /\ DOMAIN graph.nodes = {Pkg1Path, Pkg2Path} \ project.errs
       /\ \A pkgPath \in DOMAIN graph.nodes : graph.nodes[pkgPath].PkgPath = pkgPath

\* C15 happens: the graph of a tree whose pkg2 has load errors and whose pkg1
\* has none was built
C15_Witness ==
    /\ session = "graph"
    /\ project.load = "ok"
    /\ project.errs = {Pkg2Path}
    /\ DOMAIN graph.nodes = {Pkg1Path}
    /\ "Foo" \in Range(graph.nodes[Pkg1Path].Functions)
    /\ graph.err = NilError

\* the paths of the files of the packages of the tree that loaded without errors
FilesOfErrorFreePackages(t) ==
    UNION {{LoadPackages(t)[i].Syntax[j].Path : j \in 1..Len(LoadPackages(t)[i].Syntax)} :
           i \in {i \in 1..Len(LoadPackages(t)) : ~LoadPackages(t)[i].Errors}}

\* C16: when some but not all of the loaded packages have load errors,
\* ParseProject succeeds and the ProjectInfo has an entry for exactly the files
\* of the packages without errors.
C16_ParseProjectSkipsErrorPackages ==
    (/\ session \in {"parsed", "failed"}
     /\ project.load = "ok"
     /\ project.errs # {}
     /\ project.errs # {Pkg1Path, Pkg2Path})
    => /\ session = "parsed"
       /\ parseErr = NilError
       /\ DOMAIN projectInfo = FilesOfErrorFreePackages(project)

\* the number of blanks a line starts with
Indent(line) == Len(line) - Len(TrimLeft(line))

\* the block that line number i of the text opens: the line and the lines after
\* it that are indented deeper
BlockAt(lines, i) ==
    LET ends == {j \in (i + 1)..Len(lines) : Indent(lines[j]) <= Indent(lines[i])}
    IN SubSeq(lines, i, IF ends = {} THEN Len(lines) ELSE (CHOOSE j \in ends : \A k \in ends : j <= k) - 1)

\* the text before the header of the used-items section
LocalPartOf(lines) ==
    LET at == {i \in 1..Len(lines) : lines[i] \in UsedHeaders}
    IN IF at = {} THEN lines ELSE SubSeq(lines, 1, (CHOOSE i \in at : \A j \in at : i <= j) - 1)

\* does the line open the block "<Kind>: <n>" of the entity named n
OpensBlock(line, n) ==
    \/ TrimLeft(line) \in {"Struct: " \o n, "Interface: " \o n, "Function: " \o n}
    \/ StartsWith(TrimLeft(line), "Const: " \o n \o " ")
    \/ StartsWith(TrimLeft(line), "Var: " \o n \o " ")

\* the names of the local declarations of a FileInfo
LocalNames(fileInfo) ==
    NamesOf(fileInfo.Structs) \cup NamesOf(fileInfo.Interfaces) \cup NamesOf(fileInfo.Functions)
    \cup NamesOf(fileInfo.GlobalVars)

\* does the name in a used-imported list denote the declaration named
\* localName of a file of the package packageName: the same name, or the name
\* qualified with a package path that ends in the package name
SameEntity(usedName, packageName, localName) ==
    \/ usedName = localName
    \/ EndsWith(usedName, "/" \o packageName \o "." \o localName)

\* C19: when a file uses an entity that another file of the ProjectInfo
\* declares (a struct, interface, function or global variable/constant), the
\* used-items section of the text of the using file and the local sections of
\* the text of the declaring file hold the same block for it, line for line.
C19_IdenticalRendering ==
    (session \in {"manual", "parsed"})
    => \A p, q \in DOMAIN projectInfo :
          \A o \in Orders(DOMAIN projectInfo) :
             LET used == UsedItemsOf(Compose(projectInfo, p, o).out)
                 local == LocalPartOf(Compose(projectInfo, q, o).out)
             IN \A usedName \in UsedNames(projectInfo[p]) :
                   \A localName \in LocalNames(projectInfo[q]) :
                      SameEntity(usedName, projectInfo[q].PackageName, localName)
                      => \E i \in 1..Len(used), j \in 1..Len(local) :
                            /\ OpensBlock(used[i], usedName)
                            /\ OpensBlock(local[j], localName)
                            /\ BlockAt(used, i) = BlockAt(local, j)

\* the names of the entries of one local-declaration list of all files
IndexedNames(pi, list) == UNION {NamesOf(pi[p][list]) : p \in DOMAIN pi}

\* C20: for every name in the used-imported lists of the composed file, the
\* used-items section follows the order struct, interface, function: a name in
\* the struct index gets its struct block; a name only in the interface (and
\* function) index its interface block; a name only in the function index its
\* function block; a function block is there only for a name in neither the
\* struct nor the interface index, and the bare line only for a name in none.
C20_LookupPrecedence ==
    Found =>
        LET used == UsedItemsOf(composed[1].out)
            inStructs == IndexedNames(projectInfo, "Structs")
            inInterfaces == IndexedNames(projectInfo, "Interfaces")
            inFunctions == IndexedNames(projectInfo, "Functions")
        IN \A n \in UsedNames(Target) :
              /\ n \in inStructs => HasLine(used, "  Struct: " \o n)
              /\ (n \notin inStructs /\ n \in inInterfaces) => HasLine(used, "  Interface: " \o n)
              /\ (n \notin inStructs /\ n \notin inInterfaces /\ n \in inFunctions)
                 => HasLine(used, "  Function: " \o n)
              /\ HasLine(used, "  Interface: " \o n) => n \notin inStructs
              /\ HasLine(used, "  Function: " \o n) => (n \notin inStructs /\ n \notin inInterfaces)
              /\ HasLine(used, "- " \o n)
                 => (n \notin inStructs /\ n \notin inInterfaces /\ n \notin inFunctions)

\* C17: in analyzeProject no goroutine holds fileInfoCacheLock while its
\* ParseProject runs: the read lock is held only from RLock to the RUnlock of
\* the hit or of the miss path, which comes before the pass starts, and the
\* write lock only around the one map store (populate) or the one map delete
\* (evict); the lock is free, or read-held by others, during every pass.
C17_LockNotHeldDuringPass ==
    /\ fileInfoCacheLock.writer # <<>> => fileInfoCacheLock.readers = {}
    /\ \A c \in 1..MaxCallers :
          /\ analyze[c].pc = "parsing"
             => /\ <<"analyzeProject", c>> \notin fileInfoCacheLock.readers
                /\ fileInfoCacheLock.writer # <<"analyzeProject", c>>
          /\ <<"analyzeProject", c>> \in fileInfoCacheLock.readers
             => analyze[c].pc \in {"lookup", "hitRUnlock", "missRUnlock"}
          /\ fileInfoCacheLock.writer = <<"analyzeProject", c>> => analyze[c].pc \in {"store", "Unlock"}
          /\ fileInfoCacheLock.writer = <<"cleanup", c>> => cleanup[c] \in {"delete", "Unlock"}
          /\ <<"cleanup", c>> \notin fileInfoCacheLock.readers

\* C17 happens: the pass of one caller runs while another caller holds the
\* write lock for its store
C17_Witness ==
    \E c, d \in 1..MaxCallers :
       /\ c # d
       /\ analyze[c].pc = "parsing"
       /\ analyze[d].pc = "store"
       /\ fileInfoCacheLock.writer = <<"analyzeProject", d>>

\* C18: the build_dep_graph handler that waits in its select returns in the
\* end.  When it returns and BuildGraph has not completed, the 30 seconds have
\* passed, the error is "graph build timed out after 30 seconds" and there is
\* no response; when BuildGraph completed before the 30 seconds passed, the
\* handler returns the response made of the graph's nodes, or BuildGraph's
\* error as "graph build failed: <error>" and no response.
C18_HandlerReturns ==
    /\ (handler.pc = "select") ~> (handler.pc = "returned")
    /\ [][(handler.pc = "select" /\ handler'.pc = "returned")
          => /\ ~done
                => /\ elapsed = TimeoutSeconds
                   /\ handler'.err = <<"graph build timed out after 30 seconds">>
                   /\ handler'.response = <<>>
             /\ (done /\ elapsed < TimeoutSeconds)
                => IF worker.graphErr = NilError
                   THEN /\ handler'.err = NilError
                        /\ handler'.response =
                              <<[type |-> "text", text |-> <<"zstd", <<"json", worker.graph.nodes>>>>]>>
                   ELSE /\ handler'.err = <<"graph build failed: " \o worker.graphErr[1]>>
                        /\ handler'.response = <<>>]_vars

\* C18 happens: the handler returned the timeout error while BuildGraph was
\* still running
C18_Witness ==
    /\ handler.pc = "returned"
    /\ worker.pc = "running"
    /\ ~done
    /\ elapsed = TimeoutSeconds
    /\ handler.err = <<"graph build timed out after 30 seconds">>

\* the names of a list, in its order, each at its first occurrence only
FirstOccurrences(names) ==
    LET first == SelectSeq([i \in 1..Len(names) |-> i],
                           LAMBDA i : \A j \in 1..(i - 1) : names[j] # names[i])
    IN [k \in 1..Len(first) |-> names[first[k]]]

\* the names (among ns) of the items a used-items section opens, in its order
ItemNames(used, ns) ==
    LET at == SelectSeq([i \in 1..Len(used) |-> i], LAMBDA i : \E n \in ns : OpensItem(used[i], n))
    IN [k \in 1..Len(at) |-> CHOOSE n \in ns : OpensItem(used[at[k]], n)]

\* the names of the three used-imported lists, structs then functions then
\* global vars
UsedNameSeq(fileInfo) ==
    [i \in 1..Len(fileInfo.UsedImportedStructs) |-> fileInfo.UsedImportedStructs[i].Name]
    \o [i \in 1..Len(fileInfo.UsedImportedFunctions) |-> fileInfo.UsedImportedFunctions[i].Name]
    \o [i \in 1..Len(fileInfo.UsedImportedGlobalVars) |-> fileInfo.UsedImportedGlobalVars[i].Name]

\* C21: first write wins.  The items of the used-items section of the composed
\* file are, in order, the names of the used-imported lists taken in the order
\* structs, functions, global vars, each name at its first occurrence only:
\* every later occurrence of a name (in the same list or in a later one) opens
\* no item.
C21_FirstWriteWins ==
    Found =>
        ItemNames(UsedItemsOf(composed[1].out), UsedNames(Target))
            = FirstOccurrences(UsedNameSeq(Target))

\* has the list no two entries of the same Name
DistinctNames(list) == \A i, j \in 1..Len(list) : list[i].Name = list[j].Name => i = j

\* C22: each of the three used-imported lists of every file of a ProjectInfo
\* that ParseProject returned has at most one entry per fully-qualified name.
C22_OneEntryPerName ==
    session = "parsed" =>
        \A p \in DOMAIN projectInfo :
            /\ DistinctNames(projectInfo[p].UsedImportedStructs)
            /\ DistinctNames(projectInfo[p].UsedImportedFunctions)
            /\ DistinctNames(projectInfo[p].UsedImportedGlobalVars)

\* the objects of other packages that the file refers to through a selector
\* and that no package of the loaded project declares
ExternalObjects(file, pkgPath, kinds) ==
    LET nodes == Walk(file)
    IN {nodes[i].Sel.Obj : i \in {i \in 1..Len(nodes) :
            /\ nodes[i].k = "SelectorExpr"
            /\ nodes[i].Sel.Obj.Kind \in kinds
            /\ nodes[i].Sel.Obj.Pkg \notin {"", pkgPath, Pkg1Path, Pkg2Path}}}

\* C23: for every function and every package-level variable or constant that
\* pkg2/consumer.go refers to and that no loaded package declares, the matching
\* used-imported list of the parsed file has an entry, and the entry carries
\* the fully-qualified name only.
C23_StubForExternalSymbols ==
    session = "parsed" =>
        LET file == ConsumerGoFile(project.uses)
            fileInfo == projectInfo[ConsumerGo]
        IN /\ \A obj \in ExternalObjects(file, Pkg2Path, {"Func"}) :
                \E i \in 1..Len(fileInfo.UsedImportedFunctions) :
                    fileInfo.UsedImportedFunctions[i]
                        = FunctionInfo(obj.Pkg \o "." \o obj.Name, "", <<>>, <<>>)
           /\ \A obj \in ExternalObjects(file, Pkg2Path, {"Var", "Const"}) :
                \E i \in 1..Len(fileInfo.UsedImportedGlobalVars) :
                    LET gv == fileInfo.UsedImportedGlobalVars[i]
                    IN /\ gv.Name = obj.Pkg \o "." \o obj.Name
                       /\ gv.Comment = "" /\ gv.Type = "" /\ gv.Value = ""

\* the files of the parsed tree, as <<package path, file>>
ParsedFiles == <<<<Pkg1Path, TypesGoFile>>, <<Pkg2Path, ConsumerGoFile(project.uses)>>>>

\* the top-level function declarations of a file, with or without receiver
FuncDeclsOf(file, withRecv) ==
    SelectSeq(file.Decls, LAMBDA d : d.k = "FuncDecl" /\ (Len(d.Recv) > 0) = withRecv)

\* the places <<path, struct, method>> of the ProjectInfo where the struct
\* named typeName has a method named name
MethodPlaces(pi, typeName, name) ==
    UNION {UNION {{<<p, i, j>> : j \in {j \in 1..Len(pi[p].Structs[i].Methods) :
                                          /\ pi[p].Structs[i].Name = typeName
                                          /\ pi[p].Structs[i].Methods[j].Name = name}} :
                    i \in 1..Len(pi[p].Structs)} : p \in DOMAIN pi}

FileScopeSpecs(file, kind) ==
    LET genDecls == SelectSeq(file.Decls, LAMBDA d : d.k = "GenDecl")
    IN SelectSeq(Flatten([i \in 1..Len(genDecls) |-> genDecls[i].Specs]), LAMBDA sp : sp.k = kind)

\* C25: in a ProjectInfo that ParseProject returned, the GlobalVars of a file
\* are the names its var and const declarations at file scope declare, one
\* entry each and none for a var or const declared in a function body, and its
\* Structs and Interfaces are types declared at file scope.
C25_FileScopeOnly ==
    session = "parsed" =>
        \A f \in 1..Len(ParsedFiles) :
            LET pkgPath == ParsedFiles[f][1]
                file == ParsedFiles[f][2]
                fileInfo == projectInfo[file.Path]
                valueSpecs == FileScopeSpecs(file, "ValueSpec")
                typeSpecs == FileScopeSpecs(file, "TypeSpec")
            IN /\ [i \in 1..Len(fileInfo.GlobalVars) |-> fileInfo.GlobalVars[i].Name]
                    = Flatten([i \in 1..Len(valueSpecs) |-> valueSpecs[i].Names])
               /\ NamesOf(fileInfo.Structs) \cup NamesOf(fileInfo.Interfaces)
                    \subseteq {pkgPath \o "." \o typeSpecs[i].Name : i \in 1..Len(typeSpecs)}

\* the doc comment the group's comment has precedence in: the comment of the
\* declaration group, or the spec's own when the group has none
GroupFirstComment(genDecl, spec) == DocComment(IF genDecl.Doc # "" THEN genDecl.Doc ELSE spec.Doc)

\* C26: doc-comment precedence.  For every struct, interface and var/const
\* declaration at the file scope of pkg1/types.go, the Comment extracted by
\* ParseProject is the comment of the declaration group when the group has
\* one, and the comment of the spec only when the group has none.
C26_GroupCommentFirst ==
    session = "parsed" =>
        LET fileInfo == projectInfo[TypesGo]
            genDecls == SelectSeq(TypesGoFile.Decls, LAMBDA d : d.k = "GenDecl")
        IN \A g \in 1..Len(genDecls) : \A s \in 1..Len(genDecls[g].Specs) :
              LET spec == genDecls[g].Specs[s]
                  expected == GroupFirstComment(genDecls[g], spec)
              IN IF spec.k = "ValueSpec"
                 THEN \A i \in 1..Len(fileInfo.GlobalVars) :
                         fileInfo.GlobalVars[i].Name \in Range(spec.Names)
                         => fileInfo.GlobalVars[i].Comment = expected
                 ELSE /\ \A i \in 1..Len(fileInfo.Structs) :
                            fileInfo.Structs[i].Name = Pkg1Path \o "." \o spec.Name
                            => fileInfo.Structs[i].Comment = expected
                      /\ \A i \in 1..Len(fileInfo.Interfaces) :
                            fileInfo.Interfaces[i].Name = Pkg1Path \o "." \o spec.Name
                            => fileInfo.Interfaces[i].Comment = expected

\* C27: a named type of another package that pkg2/consumer.go mentions only
\* as the key type of a map (var _ map[pkg1.K]int) is not in the
\* used-imported-structs of the parsed file; one that is the value type of a
\* map of a declared variable (var _ map[string]pkg1.K) is.
C27_MapKeyNotTracked ==
    session = "parsed" =>
        LET used == NamesOf(projectInfo[ConsumerGo].UsedImportedStructs)
        IN /\ ("MapKey" \in project.uses /\ "MapValue" \notin project.uses)
                => Pkg1Path \o ".K" \notin used
           /\ "MapValue" \in project.uses => Pkg1Path \o ".K" \in used

\* C28: a cached value leaves fileInfoCache only by the delete of the cleanup
\* goroutine that the call which stored it started: the cleanup goroutine of an
\* earlier store does not remove the value a later store put under the same
\* key (which would evict it before its own cacheTimeout has passed).
C28_EvictedByOwnTimerOnly ==
    [][\A path \in DOMAIN fileInfoCache :
          (path \notin DOMAIN fileInfoCache' \/ fileInfoCache'[path] # fileInfoCache[path])
          => \/ \E c \in 1..MaxCallers :
                  /\ cleanup[c] = "delete" /\ cleanup'[c] = "Unlock"
                  /\ fileInfoCache[path].pass = c
                  /\ path \notin DOMAIN fileInfoCache'
             \/ \E c \in 1..MaxCallers :
                  /\ analyze[c].pc = "store" /\ analyze'[c].pc = "Unlock"
                  /\ path \in DOMAIN fileInfoCache'
                  /\ fileInfoCache'[path].pass = c]_vars

\* did the ParseProject of caller c's call fail
ParseFailed(c) ==
    /\ Len(analyze[c].out) = 1
    /\ StartsWith(analyze[c].out[1], "Error parsing project: ")

\* C29: when ParseProject fails inside analyzeProject the call ends, the step
\* leaves the cache and the cleanup goroutines as they were, the call has
\* started no cleanup goroutine and has stored no entry; and a call that looks
\* up a path that has no entry misses and goes on to a pass of its own.
C29_FailedPassLeavesCache ==
    [][/\ \A c \in 1..MaxCallers :
            /\ ParseFailed(c)'
               => /\ analyze'[c].pc = "done"
                  /\ cleanup'[c] = "none"
                  /\ \A path \in DOMAIN fileInfoCache' : fileInfoCache'[path].pass # c
            /\ (~ParseFailed(c) /\ ParseFailed(c)')
               => /\ fileInfoCache' = fileInfoCache
                  /\ cleanup' = cleanup
       /\ \A d \in 1..MaxCallers :
            (/\ analyze[d].pc = "lookup" /\ analyze'[d].pc # "lookup"
             /\ analyze[d].path \notin DOMAIN fileInfoCache)
            => /\ analyze'[d].pc = "missRUnlock"
               /\ ~analyze'[d].hit]_vars

\* C29 happens: the pass of one call failed, nothing is cached, and the pass of
\* another call for the same path runs
C29_Witness ==
    \E c, d \in 1..MaxCallers :
       /\ c # d
       /\ ParseFailed(c)
       /\ analyze[c].pc = "done"
       /\ cleanup[c] = "none"
       /\ fileInfoCache = <<>>
       /\ analyze[d].path = analyze[c].path
       /\ ~analyze[d].hit
       /\ analyze[d].pc = "parsing"

\* C30: in the build_dep_graph handler, a response is made only of the graph
\* the goroutine wrote before it closed done, with a nil graphErr and a graph
\* that is not nil; the error of the build is read only when done is closed;
\* a handler that returned while done was open returned the timeout error and
\* no response, whatever the goroutine has written; and close(done) can be
\* done at once, whether the handler has returned or not.
C30_GraphReadAfterDone ==
    /\ handler.response # <<>>
       => /\ done
          /\ worker.pc = "done"
          /\ worker.graphErr = NilError
          /\ ~worker.graph.isNil
          /\ handler.response = <<[type |-> "text", text |-> <<"zstd", <<"json", worker.graph.nodes>>>>]>>
    /\ (handler.pc = "returned" /\ handler.err # <<"graph build timed out after 30 seconds">>)
       => /\ done
          /\ worker.pc = "done"
          /\ handler.err = IF worker.graphErr = NilError THEN NilError
                           ELSE <<"graph build failed: " \o worker.graphErr[1]>>
    /\ (handler.pc = "returned" /\ ~done)
       => /\ handler.err = <<"graph build timed out after 30 seconds">>
          /\ handler.response = <<>>
    /\ worker.pc = "close" => ENABLED CloseDone

\* C30 happens: the handler returned the timeout error, and after that the
\* goroutine wrote the result of a failed build and closed done
C30_Witness ==
    /\ handler.pc = "returned"
    /\ handler.err = <<"graph build timed out after 30 seconds">>
    /\ handler.response = <<>>
    /\ worker.pc = "done"
    /\ worker.graphErr # NilError
    /\ done

====
